---- MODULE Spec2Model ----
(***************************************************************************)
(* Commander subsystem of the Cirkelline Local Agent (cla/src-tauri):      *)
(* TaskScheduler, CkcSync, CommanderUnit control loop and the adapters'    *)
(* RateLimiter, as state machines.                                         *)
(*                                                                         *)
(* Conventions.  Option<T> is a sequence: << >> is None, <<x>> is Some(x). *)
(* A uuid (Uuid::new_v4) is a fresh number drawn from a counter, so ids    *)
(* are unique and, for tasks, grow in the order the tasks were created.    *)
(* A timestamp taken with Utc::now() that is only stored is the string     *)
(* "Some" wrapped as an Option: <<"now">>.                                 *)
(***************************************************************************)
EXTENDS Naturals, Integers, Sequences, FiniteSets, TLC

VARIABLES
    \* ---- TaskScheduler (task_scheduler.rs) ----
    queue,          \* VecDeque<ResearchTask>
    next_id,        \* next task id handed out by ResearchTask::new
    taken,          \* log of the tasks get_next_task returned, in order
    sched_ret,      \* the last scheduler call and what it returned
    \* ---- CkcSync (sync.rs) ----
    sync_config,    \* SyncConfig: the fields the code reads after construction
    sync_status,    \* SyncStatus
    offline_queue,  \* VecDeque<SyncItem>
    last_sync,      \* Option<DateTime<Utc>>
    next_item,      \* next SyncItem id handed out by queue_for_sync
    spc,            \* per caller: where its connect / sync_now / force_sync call is
    scall,          \* per caller: the call it is in
    synced,         \* per caller: the local `synced` / `items_synced`
    sync_ret,       \* per caller: what its last connect / sync_now / force_sync returned
    \* ---- RateLimiter (research/adapters/common.rs) ----
    max_requests,   \* RateLimiter.max_requests
    window,         \* RateLimiter.window, in seconds
    request_count,  \* RateLimiter.request_count
    window_start,   \* RateLimiter.window_start
    now,            \* Instant::now(), in seconds
    in_window,      \* record() calls made inside the window that window_start opens
    rl_ret,         \* the last RateLimiter call and what it returned
    acq_pc,         \* where the acquire() call in progress is
    attempts,       \* acquire's local `attempts`
    acq_polls,      \* check() calls the acquire() in progress has seen fail
    acq_ret,        \* what the last acquire() returned
    acquirers,      \* per concurrent caller of acquire(): where it is, its `attempts`
    acquired_at,    \* the times at which those callers' acquire() calls recorded
    \* ---- TaskScheduler findings cache, CommanderUnit (unit.rs) ----
    recent_findings,\* Vec<ResearchFinding>, most recent first
    next_finding,   \* next finding id an adapter search hands out
    enabled,        \* CommanderConfig.enabled
    status,         \* CommanderStatus
    shutdown_tx,    \* Option<Sender<()>>: the loop whose shutdown channel it feeds
    next_loop,      \* next control loop to be spawned
    recv_ready,     \* per control loop: shutdown_rx.recv() was ready when it entered select!
    loop_pc,        \* per control loop: where it is
    loop_task,      \* per control loop: the task it dequeued
    loop_search,    \* per control loop: how the search of its execute_task ended
    loop_signal,    \* per control loop: the signal execute_task returned
    chan_msg,       \* per control loop: messages in its shutdown channel
    chan_tx,        \* per control loop: its shutdown channel's sender is alive
    decisions,      \* the findings a tick's process_signal has decided on
    start_ret,      \* the start() calls made so far and what the last one returned
    \* ---- library functions (research/processors, error/retry.rs) ----
    lib_in,         \* the last library call: the function and its arguments
    lib_out,        \* what it returned, or that it panicked
    \* ---- DecisionEngine (decision_engine.rs) ----
    next_decision,  \* next Decision id handed out by process_signal
    engine_in,      \* the Signal of the last process_signal call
    engine_out      \* the Decision it returned

sched_vars == <<queue, next_id, taken, sched_ret>>
sync_vars == <<sync_config, sync_status, offline_queue, last_sync, next_item,
               spc, scall, synced, sync_ret>>

acq_vars == <<acq_pc, attempts, acq_polls, acq_ret, acquirers, acquired_at>>

rl_vars == <<max_requests, window, request_count, window_start, now, in_window, rl_ret,
             acq_pc, attempts, acq_polls, acq_ret, acquirers, acquired_at>>

engine_vars == <<next_decision, engine_in, engine_out>>

lib_vars == <<lib_in, lib_out>>

\* the CommanderUnit's own state: all of tick_vars but the findings cache
loop_vars == <<enabled, status, shutdown_tx, next_loop, recv_ready, loop_pc, loop_task, loop_search,
               loop_signal, chan_msg, chan_tx, decisions, start_ret, lib_in, lib_out>>

tick_vars == <<recent_findings, next_finding, enabled, status, shutdown_tx, next_loop, recv_ready,
               loop_pc, loop_task, loop_search, loop_signal, chan_msg, chan_tx, decisions,
               start_ret, lib_in, lib_out>>

unit_vars == <<recent_findings, next_finding, enabled, status, shutdown_tx, next_loop, recv_ready,
               loop_pc, loop_task, loop_search, loop_signal, chan_msg, chan_tx, decisions,
               start_ret, lib_in, lib_out, next_decision, engine_in, engine_out>>

vars == <<queue, next_id, taken, sched_ret,
          sync_config, sync_status, offline_queue, last_sync, next_item,
          spc, scall, synced, sync_ret,
          max_requests, window, request_count, window_start, now, in_window, rl_ret,
          acq_pc, attempts, acq_polls, acq_ret, acquirers, acquired_at,
          recent_findings, next_finding, enabled, status, shutdown_tx, next_loop, recv_ready,
          loop_pc, loop_task, loop_search, loop_signal, chan_msg, chan_tx, decisions,
          start_ret, lib_in, lib_out, next_decision, engine_in, engine_out>>

-----------------------------------------------------------------------------
(* Bounds of the model *)

\* stand-in for TaskScheduler::new's max_queue_size: 100 (task_scheduler.rs:79)
max_queue_size == 2
\* number of tasks ever created
MaxTasks == 3
\* number of concurrent callers of get_next_task
NumConsumers == 2

Consumers == 1..NumConsumers

\* stand-in for SyncConfig::default's batch_size: 10 (sync.rs:26); update_config
\* sets any batch_size up to it
default_batch_size == 2
\* stand-in for SyncConfig::default's offline_queue_max: 1000 (sync.rs:28);
\* update_config sets any offline_queue_max up to it
default_offline_queue_max == 2
\* number of SyncItems ever created
MaxItems == 3
\* number of callers of connect / sync_now / force_sync; with more than one
\* their calls interleave at every lock they take
NumCallers == 1

Callers == 1..NumCallers
\* a further task, which calls connect() while theirs are in progress
Connector == NumCallers + 1
\* every task that may be inside a CkcSync call
SyncTasks == 1..Connector

\* RateLimiter::new(max_requests, window_secs) with max_requests up to
MaxRequests == 2
\* and window_secs up to
MaxWindow == 2
\* the clock runs from 0 to
MaxTime == 4
\* record() is called while request_count is below
MaxCount == 3
\* number of tasks calling acquire() on one RateLimiter at once
NumAcquirers == 2
\* acquire() calls that may still begin while fewer than this many have recorded
MaxAcquires == 3

Acquirers == 1..NumAcquirers

\* stand-in for acquire's MAX_ATTEMPTS: 60 (common.rs:83)
MAX_ATTEMPTS == 2

\* stand-in for TaskScheduler::new's max_findings_cache: 50 (task_scheduler.rs:80)
max_findings_cache == 2
\* number of add_finding calls made outside the control loop
MaxCached == 24
\* largest `limit` get_recent_findings is called with
MaxLimit == 3
\* number of findings the adapter searches ever return
MaxFindings == 2
\* number of findings one search returns (execute_task asks for at most 10)
MaxFound == 2
\* number of start() calls ever made
MaxStarts == 3
\* number of control loops ever spawned by start()
MaxLoops == 2
\* number of process_signal calls made outside the control loop
MaxDecisions == 2

Loops == 1..MaxLoops

-----------------------------------------------------------------------------
(* TaskPriority, TaskStatus, ResearchTask *)

Critical == 4
High == 3
Normal == 2
Low == 1
Background == 0

TaskPriority == {Critical, High, Normal, Low, Background}

TaskStatus == {"Pending", "Running", "Completed", "Failed", "Cancelled"}

\* ResearchTask::new(topic, priority): a fresh id, Pending, never started
NewTask(id, priority) ==
    [id |-> id, priority |-> priority, status |-> "Pending", started_at |-> << >>]

-----------------------------------------------------------------------------
(* Sequence helpers: Iterator::position, VecDeque::remove / insert / pop_front *)

\* iter().position(pred): the first index whose element satisfies P, 0 for None
Position(q, P(_)) ==
    IF \E i \in 1..Len(q) : P(q[i])
    THEN CHOOSE i \in 1..Len(q) : P(q[i]) /\ \A j \in 1..(i - 1) : ~P(q[j])
    ELSE 0

\* VecDeque::remove(idx)
RemoveAt(q, i) == SubSeq(q, 1, i - 1) \o SubSeq(q, i + 1, Len(q))

\* VecDeque::insert(idx, x)
InsertAt(q, i, x) == SubSeq(q, 1, i - 1) \o <<x>> \o SubSeq(q, i, Len(q))

\* VecDeque::pop_front, the queue that is left (an empty queue stays empty)
PopFront(q) == IF Len(q) = 0 THEN q ELSE Tail(q)

IsBackground(t) == t.priority = Background
IsPending(t) == t.status = "Pending"

-----------------------------------------------------------------------------
(* TaskScheduler::add_task *)

\* "Maintain max queue size": at capacity, remove the first Background task,
\* or else the front of the queue
EvictNoop(q) == q
Evict(q) ==
    IF Len(q) >= max_queue_size
    THEN IF Position(q, IsBackground) # 0
         THEN RemoveAt(q, Position(q, IsBackground))
         ELSE PopFront(q)
    ELSE q

\* "Insert based on priority": before the first task of strictly lower priority
InsertLifo(q, task) ==
    LET Lower(t) == t.priority <= task.priority
        idx == Position(q, Lower)
    IN  InsertAt(q, IF idx = 0 THEN Len(q) + 1 ELSE idx, task)
InsertByPriority(q, task) ==
    LET Lower(t) == t.priority < task.priority
        idx == Position(q, Lower)
    IN  InsertAt(q, IF idx = 0 THEN Len(q) + 1 ELSE idx, task)

AddTaskAppend(q, task) == Append(Evict(q), task)
AddTaskTo(q, task) == InsertByPriority(Evict(q), task)

\* the last call: the operation, its caller or its task_id argument, and what
\* it returned
NoRet == [op |-> "none", by |-> 0, id |-> 0, limit |-> 0, task |-> << >>,
          findings |-> << >>, ok |-> FALSE, queue_status |-> << >>]

AddTask(priority) ==
    /\ next_id <= MaxTasks
    /\ queue' = AddTaskTo(queue, NewTask(next_id, priority))
    /\ next_id' = next_id + 1
    /\ sched_ret' = [NoRet EXCEPT !.op = "add_task"]
    /\ UNCHANGED taken

(* TaskScheduler::get_next_task, called by consumer c; the body runs under the
   queue's write lock *)
MarkRunning(t) == [t EXCEPT !.status = "Running", !.started_at = <<"now">>]

DequeueKeep(q, idx) == q
Dequeue(q, idx) == RemoveAt(q, idx)

GetNextTask(c) ==
    LET idx == Position(queue, IsPending) IN
    IF idx # 0
    THEN /\ queue' = Dequeue(queue, idx)
         /\ taken' = Append(taken, MarkRunning(queue[idx]))
         /\ sched_ret' = [NoRet EXCEPT !.op = "get_next_task", !.by = c,
                                       !.task = <<MarkRunning(queue[idx])>>]
         /\ UNCHANGED next_id
    ELSE /\ sched_ret' = [NoRet EXCEPT !.op = "get_next_task", !.by = c]
         /\ UNCHANGED <<queue, next_id, taken>>

(* TaskScheduler::get_queue_status, under the queue's read lock *)
CountTasks(q, P(_)) == Cardinality({i \in DOMAIN q : P(q[i])})

QueueStatus(q) ==
    LET IsRunning(t) == t.status = "Running"
        Is(p) == Cardinality({i \in DOMAIN q : q[i].priority = p})
    IN  [total |-> Len(q),
         pending |-> CountTasks(q, IsPending),
         running |-> CountTasks(q, IsRunning),
         by_priority |-> [critical |-> Is(Critical), high |-> Is(High),
                          normal |-> Is(Normal), low |-> Is(Low),
                          background |-> Is(Background)]]

GetQueueStatus ==
    /\ sched_ret' = [NoRet EXCEPT !.op = "get_queue_status",
                                  !.queue_status = <<QueueStatus(queue)>>]
    /\ UNCHANGED <<queue, next_id, taken>>

(* TaskScheduler::clear_completed *)
ClearCompletedAndCancelled ==
    /\ queue' = SelectSeq(queue, LAMBDA t : t.status \notin {"Completed", "Failed", "Cancelled"})
    /\ sched_ret' = [NoRet EXCEPT !.op = "clear_completed"]
    /\ UNCHANGED <<next_id, taken>>
ClearCompleted ==
    /\ queue' = SelectSeq(queue, LAMBDA t : t.status \notin {"Completed", "Failed"})
    /\ sched_ret' = [NoRet EXCEPT !.op = "clear_completed"]
    /\ UNCHANGED <<next_id, taken>>

(* TaskScheduler::cancel_task(task_id) *)
CancelTask(task_id) ==
    LET HasId(t) == t.id = task_id
        idx == Position(queue, HasId)
    IN  /\ queue' = IF idx # 0
                    THEN [queue EXCEPT ![idx].status = "Cancelled"]
                    ELSE queue
        /\ sched_ret' = [NoRet EXCEPT !.op = "cancel_task", !.id = task_id,
                                      !.ok = (idx # 0)]
        /\ UNCHANGED <<next_id, taken>>

-----------------------------------------------------------------------------
(* Properties of the TaskScheduler *)

TaskIds(q) == {q[i].id : i \in DOMAIN q}
TaskById(q, id) == q[CHOOSE i \in DOMAIN q : q[i].id = id]
PendingIdx(q) == {i \in DOMAIN q : q[i].status = "Pending"}

\* C1: add_task on a queue at capacity keeps the new task and evicts exactly
\* one queued task: a Background task if one is queued, otherwise the task
\* that was enqueued earliest (the smallest id), whatever its priority.
C1_EvictsBackgroundElseOldest ==
    [][ (next_id' = next_id + 1 /\ Len(queue) >= max_queue_size) =>
          LET old == TaskIds(queue)
              new == TaskIds(queue')
          IN  /\ next_id \in new
              /\ \E e \in old :
                    /\ new = (old \ {e}) \cup {next_id}
                    /\ IF \E i \in DOMAIN queue : IsBackground(queue[i])
                       THEN IsBackground(TaskById(queue, e))
                       ELSE \A o \in old : e <= o ]_vars

\* C2: get_next_task never returns a task twice: the ids of the tasks returned
\* so far, by whichever caller, are pairwise different; a returned task is not
\* in the queue any more; it is returned Running with started_at set.
C2_NeverReturnedTwice ==
    /\ \A i, j \in DOMAIN taken : i # j => taken[i].id # taken[j].id
    /\ \A i \in DOMAIN taken :
          /\ taken[i].id \notin TaskIds(queue)
          /\ taken[i].status = "Running"
          /\ taken[i].started_at # << >>
    /\ (sched_ret.op = "get_next_task" /\ sched_ret.task # << >>) =>
          /\ taken # << >>
          /\ sched_ret.task[1] = taken[Len(taken)]

\* two tasks have been handed out, the last one to the second caller, and the
\* queue still holds a task
C2_Witness ==
    /\ Len(taken) >= 2
    /\ sched_ret.op = "get_next_task"
    /\ sched_ret.by = 2
    /\ sched_ret.task # << >>
    /\ queue # << >>

\* C3: a get_next_task call returns a Pending task of the highest priority
\* among the Pending tasks queued, the earliest added of that priority, and
\* returns None only when no queued task is Pending.
C3_HighestPriorityFifo ==
    [][ sched_ret'.op = "get_next_task" =>
          IF PendingIdx(queue) = {}
          THEN sched_ret'.task = << >>
          ELSE /\ sched_ret'.task # << >>
               /\ \E i \in PendingIdx(queue) :
                     /\ queue[i].id = sched_ret'.task[1].id
                     /\ \A j \in PendingIdx(queue) :
                           /\ queue[j].priority <= queue[i].priority
                           /\ queue[j].priority = queue[i].priority
                                 => queue[i].id <= queue[j].id ]_vars

\* a task was returned while a Pending task of the same priority, added later,
\* and a Cancelled task stay queued
C3_Witness ==
    /\ sched_ret.op = "get_next_task"
    /\ sched_ret.task # << >>
    /\ \E i \in PendingIdx(queue) :
          /\ queue[i].priority = sched_ret.task[1].priority
          /\ queue[i].id > sched_ret.task[1].id

\* C4: the task queue never holds more than max_queue_size tasks.
C4_QueueBounded == Len(queue) <= max_queue_size

\* the queue is full after an add_task that had to evict
C4_Witness ==
    /\ Len(queue) = max_queue_size
    /\ next_id > max_queue_size + 1
    /\ sched_ret.op = "add_task"
    /\ taken = << >>

\* C19: cancel_task on a queued id marks that task Cancelled where it is and
\* returns true; on an unknown id it returns false and changes nothing; a
\* cancelled task stays queued through the calls that follow (get_next_task,
\* cancel_task) until clear_completed, which removes it.
C19_CancelledUntilSweep ==
    [][/\ sched_ret'.op = "cancel_task"
          => IF sched_ret'.id \in TaskIds(queue)
             THEN /\ sched_ret'.ok
                  /\ queue' = [i \in DOMAIN queue |->
                                  IF queue[i].id = sched_ret'.id
                                  THEN [queue[i] EXCEPT !.status = "Cancelled"]
                                  ELSE queue[i]]
             ELSE ~sched_ret'.ok /\ queue' = queue
       /\ sched_ret'.op \in {"get_next_task", "cancel_task"}
          => \A i \in DOMAIN queue :
                queue[i].status = "Cancelled" => queue[i].id \in TaskIds(queue')
       /\ sched_ret'.op = "clear_completed"
          => \A i \in DOMAIN queue' : queue'[i].status # "Cancelled"]_vars

-----------------------------------------------------------------------------
(* CkcSync *)

SyncItemType == {"Finding", "Decision", "Telemetry", "AgentLearning"}

\* SyncConfig::default
DefaultSyncConfig ==
    [batch_size |-> default_batch_size, offline_queue_max |-> default_offline_queue_max]

\* #[error("Connection failed")] ConnectionFailed: the error and its Display text
ConnectionFailed == <<"SyncError::ConnectionFailed">>
Display(e) == IF e = ConnectionFailed THEN "Connection failed" ELSE "?"

\* CommanderUnit::force_sync: .map(|_| ()).map_err(|e| CommanderError::SyncError(e.to_string()))
CommanderSyncError(e) == <<"CommanderError::SyncError", Display(e)>>

\* what a call returned: Ok(SyncResult) for sync_now, Ok(()) for
\* connect and force_sync, or Err
NoSyncRet == [call |-> "none", result |-> "none", value |-> << >>, err |-> << >>]
OkRet(call, count) ==
    [call |-> call, result |-> "Ok",
     value |-> IF call = "sync_now"
               THEN <<[items_synced |-> count, items_failed |-> 0]>>
               ELSE << >>,
     err |-> << >>]
ErrRet(call, e) ==
    [call |-> call, result |-> "Err", value |-> << >>,
     err |-> IF call = "force_sync" THEN CommanderSyncError(e) ELSE e]

(* CkcSync::update_config *)
UpdateConfig(config) ==
    /\ sync_config' = config
    /\ UNCHANGED <<sync_status, offline_queue, last_sync, next_item,
                   spc, scall, synced, sync_ret>>

(* CkcSync::queue_for_sync: the item is built, offline_queue_max read and the
   queue changed *)
EnqueueNoEvict(q, max_queue, item) == Append(q, item)
Enqueue(q, max_queue, item) ==
    Append(IF Len(q) >= max_queue THEN PopFront(q) ELSE q, item)

QueueForSync(item_type, data) ==
    /\ next_item <= MaxItems
    /\ offline_queue' = Enqueue(offline_queue, sync_config.offline_queue_max,
                                [id |-> next_item, item_type |-> item_type, data |-> data])
    /\ next_item' = next_item + 1
    /\ UNCHANGED <<sync_config, sync_status, last_sync, spc, scall, synced, sync_ret>>

(* CkcSync::queue_finding: the finding serialised to JSON, or Null *)
QueueFinding(finding) == QueueForSync("Finding", finding)

(* CkcSync::sync_now, and CommanderUnit::force_sync which wraps it: the status
   is read and cloned, the lock released; connect comes first if Disconnected *)
SyncNowBegin(p, call) ==
    /\ spc[p] = "idle"
    /\ scall' = [scall EXCEPT ![p] = call]
    /\ spc' = [spc EXCEPT ![p] = IF sync_status = "Disconnected"
                                 THEN "connect" ELSE "drain"]
    /\ sync_ret' = [sync_ret EXCEPT ![p] = NoSyncRet]
    /\ UNCHANGED <<sync_config, sync_status, offline_queue, last_sync, next_item,
                   synced>>

(* CkcSync::connect called on its own *)
ConnectBegin(p) ==
    /\ spc[p] = "idle"
    /\ scall' = [scall EXCEPT ![p] = "connect"]
    /\ spc' = [spc EXCEPT ![p] = "connect"]
    /\ sync_ret' = [sync_ret EXCEPT ![p] = NoSyncRet]
    /\ UNCHANGED <<sync_config, sync_status, offline_queue, last_sync, next_item,
                   synced>>

(* connect: "Update status to syncing while we try" *)
ConnectSyncing(p) ==
    /\ spc[p] = "connect"
    /\ sync_status' = "Syncing"
    /\ spc' = [spc EXCEPT ![p] = "probe"]
    /\ UNCHANGED <<sync_config, offline_queue, last_sync, next_item,
                   scall, synced, sync_ret>>

(* connect: try_connect has answered; the status is set and connect returns.
   A failure ends sync_now / force_sync through the `?`. *)
ProbeStatusStale(connected) == "Syncing"
ProbeStatus(connected) == IF connected THEN "Connected" ELSE "Disconnected"

ConnectProbe(p, connected) ==
    /\ spc[p] = "probe"
    /\ sync_status' = ProbeStatus(connected)
    /\ IF connected /\ scall[p] # "connect"
       THEN /\ spc' = [spc EXCEPT ![p] = "drain"]
            /\ UNCHANGED <<scall, sync_ret>>
       ELSE /\ spc' = [spc EXCEPT ![p] = "idle"]
            /\ scall' = [scall EXCEPT ![p] = "none"]
            /\ sync_ret' = [sync_ret EXCEPT ![p] =
                               IF connected
                               THEN OkRet("connect", 0)
                               ELSE ErrRet(scall[p], ConnectionFailed)]
    /\ UNCHANGED <<sync_config, offline_queue, last_sync, next_item, synced>>

(* CkcSync::process_offline_queue: `for _ in 0..batch_size` pops the front
   until the queue is empty; the queue left and the number synced *)
RECURSIVE ProcessBatch(_, _, _)
ProcessBatch(q, n, count) ==
    IF n = 0 \/ Len(q) = 0
    THEN [queue |-> q, synced |-> count]
    ELSE ProcessBatch(Tail(q), n - 1, count + 1)

ProcessAll(q, batch_size) == [queue |-> << >>, synced |-> Len(q)]
ProcessOfflineQueue(q, batch_size) == ProcessBatch(q, batch_size, 0)

Drain(p) ==
    /\ spc[p] = "drain"
    /\ LET r == ProcessOfflineQueue(offline_queue, sync_config.batch_size)
       IN  /\ offline_queue' = r.queue
           /\ synced' = [synced EXCEPT ![p] = r.synced]
    /\ spc' = [spc EXCEPT ![p] = "stamp"]
    /\ UNCHANGED <<sync_config, sync_status, last_sync, next_item, scall, sync_ret>>

(* sync_now: "Update last sync time" and return Ok(SyncResult) *)
StampSkip(t) == t
StampNow(t) == <<"now">>

Stamp(p) ==
    /\ spc[p] = "stamp"
    /\ last_sync' = StampNow(last_sync)
    /\ sync_ret' = [sync_ret EXCEPT ![p] = OkRet(scall[p], synced[p])]
    /\ spc' = [spc EXCEPT ![p] = "idle"]
    /\ scall' = [scall EXCEPT ![p] = "none"]
    /\ synced' = [synced EXCEPT ![p] = 0]
    /\ UNCHANGED <<sync_config, sync_status, offline_queue, next_item>>

\* CkcSync::new, with the tasks that will call into it
SyncNew(tasks) ==
    /\ sync_config = DefaultSyncConfig
    /\ sync_status = "Disconnected"
    /\ offline_queue = << >>
    /\ last_sync = << >>
    /\ next_item = 1
    /\ spc = [p \in tasks |-> "idle"]
    /\ scall = [p \in tasks |-> "none"]
    /\ synced = [p \in tasks |-> 0]
    /\ sync_ret = [p \in tasks |-> NoSyncRet]

SyncInit == SyncNew(Callers)

SyncConfigs ==
    [batch_size : 0..default_batch_size, offline_queue_max : 0..default_offline_queue_max]

-----------------------------------------------------------------------------
(* Properties of CkcSync *)

Min(a, b) == IF a <= b THEN a ELSE b

\* C5: queue_for_sync / queue_finding on an offline queue that holds
\* offline_queue_max items leaves it at exactly offline_queue_max items: the
\* front is evicted, the new item is at the back, the others keep their order.
C5_FullQueueEvictsOldest ==
    [][ (next_item' = next_item + 1
            /\ Len(offline_queue) = sync_config.offline_queue_max) =>
          /\ Len(offline_queue') = sync_config.offline_queue_max
          /\ offline_queue'[Len(offline_queue')].id = next_item
          /\ SubSeq(offline_queue', 1, Len(offline_queue') - 1)
                = SubSeq(offline_queue, 2, Len(offline_queue)) ]_vars

\* C6: the offline queue is never longer than the configured offline_queue_max.
C6_QueueWithinConfiguredMax ==
    Len(offline_queue) <= sync_config.offline_queue_max

C8_FailedConnectLeavesQueue ==
    [][ \A p \in Callers :
          /\ (spc[p] = "idle" /\ spc'[p] # "idle" /\ sync_status = "Disconnected")
                => spc'[p] = "connect"
          /\ (spc[p] \in {"idle", "connect", "probe"} /\ spc'[p] # spc[p]) =>
                /\ offline_queue' = offline_queue
                /\ last_sync' = last_sync
          /\ (spc[p] = "probe" /\ spc'[p] # "probe" /\ sync_status' # "Connected") =>
                /\ spc'[p] = "idle"
                /\ sync_status' = "Disconnected"
                /\ sync_ret'[p].result = "Err"
                /\ sync_ret'[p].err =
                      IF scall[p] = "force_sync"
                      THEN <<"CommanderError::SyncError", "Connection failed">>
                      ELSE <<"SyncError::ConnectionFailed">> ]_vars

\* a sync_now has failed with ConnectionFailed while two items are queued and
\* no sync has ever completed
C8_Witness ==
    \E p \in Callers :
        /\ sync_ret[p].call = "sync_now"
        /\ sync_ret[p].result = "Err"
        /\ sync_ret[p].err = <<"SyncError::ConnectionFailed">>
        /\ sync_status = "Disconnected"
        /\ Len(offline_queue) = 2
        /\ last_sync = << >>

-----------------------------------------------------------------------------
(* RateLimiter *)

\* "Reset window if expired"
WindowExpiredLate(t, start, w) == t - start > w
WindowExpired(t, start, w) == t - start >= w

\* check(): under the window_start lock, the window is reset if it has
\* expired, then the count is compared with max_requests
CountAfterCheck(count, t, start, w) == IF WindowExpired(t, start, w) THEN 0 ELSE count
StartAfterCheck(t, start, w) == IF WindowExpired(t, start, w) THEN t ELSE start

RlCheck ==
    /\ window_start' = StartAfterCheck(now, window_start, window)
    /\ request_count' = CountAfterCheck(request_count, now, window_start, window)
    /\ rl_ret' = [op |-> "check", ok |-> request_count' < max_requests,
                  before |-> in_window]
    /\ in_window' = IF window_start' # window_start THEN 0 ELSE in_window
    /\ UNCHANGED <<max_requests, window, now, acq_vars>>

\* record(): request_count.fetch_add(1)
RlRecord ==
    /\ request_count < MaxCount
    /\ request_count' = request_count + 1
    /\ in_window' = IF now < window_start + window THEN in_window + 1 ELSE in_window
    /\ rl_ret' = [op |-> "record", ok |-> TRUE, before |-> in_window]
    /\ UNCHANGED <<max_requests, window, window_start, now, acq_vars>>

\* the sleeps an acquire() in progress may still make; the clock keeps that
\* many seconds for them below MaxTime
SleepsLeft == IF acq_pc = "idle" THEN 0 ELSE MAX_ATTEMPTS - attempts

\* a second passes
RlAdvance ==
    /\ now + SleepsLeft < MaxTime
    /\ now' = now + 1
    /\ UNCHANGED <<max_requests, window, request_count, window_start, in_window, rl_ret,
                   acq_vars>>

(* RateLimiter::acquire *)

NoAcqRet == [result |-> "none", retry_after_secs |-> << >>]

\* `let mut attempts = 0`
AcquireBegin ==
    /\ acq_pc = "idle"
    /\ now + MAX_ATTEMPTS <= MaxTime
    /\ acq_pc' = "check"
    /\ attempts' = 0
    /\ acq_polls' = 0
    /\ acq_ret' = NoAcqRet
    /\ UNCHANGED <<max_requests, window, request_count, window_start, now, in_window,
                   rl_ret, acquirers, acquired_at>>

\* `if attempts >= MAX_ATTEMPTS`
GiveUpLate(a) == a > MAX_ATTEMPTS
GiveUp(a) == a >= MAX_ATTEMPTS

\* `while !self.check().await`: check() runs; if it fails, acquire gives up with
\* RateLimited { retry_after_secs: Some(self.window.as_secs()) } or goes to sleep
AcquireCheck ==
    /\ acq_pc = "check"
    /\ window_start' = StartAfterCheck(now, window_start, window)
    /\ request_count' = CountAfterCheck(request_count, now, window_start, window)
    /\ rl_ret' = [op |-> "check", ok |-> request_count' < max_requests,
                  before |-> in_window]
    /\ in_window' = IF window_start' # window_start THEN 0 ELSE in_window
    /\ IF rl_ret'.ok
       THEN /\ acq_pc' = "record"
            /\ UNCHANGED <<acq_polls, acq_ret>>
       ELSE /\ acq_polls' = acq_polls + 1
            /\ IF GiveUp(attempts)
               THEN /\ acq_pc' = "idle"
                    /\ acq_ret' = [result |-> "Err(RateLimited)",
                                   retry_after_secs |-> <<window>>]
               ELSE /\ acq_pc' = "sleep"
                    /\ UNCHANGED acq_ret
    /\ UNCHANGED <<max_requests, window, now, attempts, acquirers, acquired_at>>

\* `tokio::time::sleep(Duration::from_secs(1)).await; attempts += 1`
AcquireSleep ==
    /\ acq_pc = "sleep"
    /\ now < MaxTime
    /\ now' = now + 1
    /\ attempts' = attempts + 1
    /\ acq_pc' = "check"
    /\ UNCHANGED <<max_requests, window, request_count, window_start, in_window, rl_ret,
                   acq_polls, acq_ret, acquirers, acquired_at>>

\* `self.record(); Ok(())`
AcquireRecord ==
    /\ acq_pc = "record"
    /\ request_count' = request_count + 1
    /\ in_window' = IF now < window_start + window THEN in_window + 1 ELSE in_window
    /\ rl_ret' = [op |-> "record", ok |-> TRUE, before |-> in_window]
    /\ acq_pc' = "idle"
    /\ acq_ret' = [result |-> "Ok", retry_after_secs |-> << >>]
    /\ UNCHANGED <<max_requests, window, window_start, now, attempts, acq_polls, acquirers,
                   acquired_at>>

(* acquire() called by several tasks at once on the one RateLimiter (the
   adapters are shared as Arc<dyn ResearchAdapter> and run on the tokio
   multi-thread runtime): each caller's check() and record() are steps of
   their own; check() is atomic under the window_start lock *)
IdleAcquirer == [pc |-> "idle", attempts |-> 0, wake |-> 0]

ConcAcquireBegin(p) ==
    /\ acquirers[p].pc = "idle"
    /\ Len(acquired_at) < MaxAcquires
    /\ acquirers' = [acquirers EXCEPT ![p] = [IdleAcquirer EXCEPT !.pc = "check"]]
    /\ UNCHANGED <<max_requests, window, request_count, window_start, now, in_window,
                   rl_ret, acq_pc, attempts, acq_polls, acq_ret, acquired_at>>

ConcAcquireCheck(p) ==
    /\ acquirers[p].pc = "check"
    /\ window_start' = StartAfterCheck(now, window_start, window)
    /\ request_count' = CountAfterCheck(request_count, now, window_start, window)
    /\ rl_ret' = [op |-> "check", ok |-> request_count' < max_requests,
                  before |-> in_window]
    /\ in_window' = IF window_start' # window_start THEN 0 ELSE in_window
    /\ acquirers' =
          [acquirers EXCEPT ![p] =
              IF rl_ret'.ok THEN [@ EXCEPT !.pc = "record"]
              ELSE IF GiveUp(@.attempts) THEN IdleAcquirer
              ELSE [@ EXCEPT !.pc = "sleep", !.wake = now + 1]]
    /\ UNCHANGED <<max_requests, window, now, acq_pc, attempts, acq_polls, acq_ret,
                   acquired_at>>

\* the caller's one-second sleep is over
ConcAcquireWake(p) ==
    /\ acquirers[p].pc = "sleep"
    /\ now >= acquirers[p].wake
    /\ acquirers' = [acquirers EXCEPT ![p] = [@ EXCEPT !.pc = "check",
                                                      !.attempts = @ + 1]]
    /\ UNCHANGED <<max_requests, window, request_count, window_start, now, in_window,
                   rl_ret, acq_pc, attempts, acq_polls, acq_ret, acquired_at>>

ConcAcquireRecord(p) ==
    /\ acquirers[p].pc = "record"
    /\ request_count' = request_count + 1
    /\ in_window' = IF now < window_start + window THEN in_window + 1 ELSE in_window
    /\ rl_ret' = [op |-> "record", ok |-> TRUE, before |-> in_window]
    /\ acquirers' = [acquirers EXCEPT ![p] = IdleAcquirer]
    /\ acquired_at' = Append(acquired_at, now)
    /\ UNCHANGED <<max_requests, window, window_start, now, acq_pc, attempts, acq_polls,
                   acq_ret>>

\* a second passes
Tick ==
    /\ now < MaxTime
    /\ now' = now + 1
    /\ UNCHANGED <<max_requests, window, request_count, window_start, in_window, rl_ret,
                   acq_vars>>

AcquireStep == AcquireCheck \/ AcquireSleep \/ AcquireRecord

\* RateLimiter::new(max_requests, window_secs)
RlNew(m, w) ==
    /\ max_requests = m
    /\ window = w
    /\ request_count = 0
    /\ window_start = 0
    /\ now = 0
    /\ in_window = 0
    /\ rl_ret = [op |-> "none", ok |-> FALSE, before |-> 0]
    /\ acq_pc = "idle"
    /\ attempts = 0
    /\ acq_polls = 0
    /\ acq_ret = NoAcqRet
    /\ acquirers = [p \in Acquirers |-> IdleAcquirer]
    /\ acquired_at = << >>

-----------------------------------------------------------------------------
(* Properties of the RateLimiter *)

\* C10: with exactly max_requests record() calls made inside the window, a
\* check() before the window has elapsed returns false (and resets nothing);
\* a check() at or after the window's expiry resets the count to zero, opens a
\* new window and, for max_requests >= 1, returns true.
C10_LimitedUntilWindowElapses ==
    [][ (rl_ret'.op = "check" /\ now' = now) =>
          /\ (in_window = max_requests /\ now < window_start + window) =>
                /\ rl_ret'.ok = FALSE
                /\ request_count' = request_count
                /\ window_start' = window_start
          /\ now >= window_start + window =>
                /\ request_count' = 0
                /\ window_start' = now
                /\ max_requests >= 1 => rl_ret'.ok = TRUE ]_vars

\* max_requests record() calls were made inside a window that has just
\* elapsed; the check() that followed reset the count and returned true
C10_Witness ==
    /\ rl_ret.op = "check"
    /\ rl_ret.ok = TRUE
    /\ max_requests >= 1
    /\ rl_ret.before = max_requests
    /\ request_count = 0
    /\ window >= 1
    /\ window_start = now
    /\ now >= window

\* C11: acquire() always returns.  It returns Ok by recording one usage unit,
\* its only change to the count besides the resets its check() calls make; or
\* it returns RateLimited with retry_after_secs the window length after
\* MAX_ATTEMPTS + 1 failed check() calls and MAX_ATTEMPTS sleeps, having
\* recorded nothing.
C11_AcquireTerminates ==
    /\ [][ /\ (acq_pc # "idle" /\ acq_pc' = "idle" /\ acq_ret'.result = "Ok") =>
                /\ acq_pc = "record"
                /\ request_count' = request_count + 1
           /\ (acq_pc \in {"check", "sleep"} /\ acq_pc' # acq_pc) =>
                request_count' \in {request_count, 0}
           /\ (acq_pc # "idle" /\ acq_pc' = "idle" /\ acq_ret'.result # "Ok") =>
                /\ acq_ret' = [result |-> "Err(RateLimited)",
                               retry_after_secs |-> <<window>>]
                /\ acq_polls' = MAX_ATTEMPTS + 1
                /\ attempts = MAX_ATTEMPTS
                /\ request_count' \in {request_count, 0} ]_vars
    /\ (acq_pc # "idle") ~> (acq_pc = "idle")

\* an acquire() on a limiter that allows requests has given up after
\* MAX_ATTEMPTS + 1 failed polls
C11_Witness ==
    /\ acq_pc = "idle"
    /\ acq_ret.result = "Err(RateLimited)"
    /\ acq_ret.retry_after_secs = <<window>>
    /\ acq_polls = MAX_ATTEMPTS + 1
    /\ max_requests >= 1
    /\ window >= 1

-----------------------------------------------------------------------------
(* f32 scores *)

\* An f32 score is its value in hundredths; NaN compares false with everything.
NaN == 0 - 1
GtOrEq(a, b) == a # NaN /\ b # NaN /\ a >= b
Gt(a, b) == a # NaN /\ b # NaN /\ a > b
Lt(a, b) == a # NaN /\ b # NaN /\ a < b
Ge(a, b) == a # NaN /\ b # NaN /\ a >= b

\* the scores signals and findings carry here: the thresholds of the rules and
\* of the SignalProcessor, values on either side of them, and NaN
Scores == {0, 30, 50, 51, 55, 60, 70, 71, 75, 80, 81, 90, 91, 100, NaN}

-----------------------------------------------------------------------------
(* DecisionEngine *)

Severity == {"Critical", "High", "Medium", "Low", "Info"}

Action == {"DeepAnalyze", "QueueForReview", "Archive", "ImmediateAlert", "Monitor",
           "RecommendAction", "RequestValidation", "StandardProcess"}

\* enum Signal; the strings the rules never read have one value each
NewTechnologyDetected(name, relevance_score, source) ==
    [type |-> "NewTechnologyDetected", name |-> name,
     relevance_score |-> relevance_score, source |-> source]
SecurityVulnerability(severity, cve_id, affected_component) ==
    [type |-> "SecurityVulnerability", severity |-> severity, cve_id |-> cve_id,
     affected_component |-> affected_component]
MarketSignal(signal_type, confidence, details) ==
    [type |-> "MarketSignal", signal_type |-> signal_type, confidence |-> confidence,
     details |-> details]
ResearchPublished(title, relevance_score, domain) ==
    [type |-> "ResearchPublished", title |-> title,
     relevance_score |-> relevance_score, domain |-> domain]
SocialTrend(topic, momentum, platform) ==
    [type |-> "SocialTrend", topic |-> topic, momentum |-> momentum,
     platform |-> platform]

Signals ==
    {NewTechnologyDetected("name", r, "GitHub") : r \in Scores}
    \cup {SecurityVulnerability(sev, <<"id">>, "component") : sev \in Severity}
    \cup {MarketSignal("BullishTrend", c, "details") : c \in Scores}
    \cup {ResearchPublished("title", r, "cs.AI") : r \in Scores}
    \cup {SocialTrend("topic", m, "Twitter") : m \in Scores}

\* get_signal_type
GetSignalType(signal) ==
    CASE signal.type = "NewTechnologyDetected" -> "new_technology_detected"
      [] signal.type = "SecurityVulnerability" -> "security_vulnerability"
      [] signal.type = "MarketSignal" -> "market_signal"
      [] signal.type = "ResearchPublished" -> "research_published"
      [] signal.type = "SocialTrend" -> "social_trend"

\* apply_rules: (Action, f32), the confidence in hundredths
ApplyRules(signal) ==
    CASE signal.type = "NewTechnologyDetected" ->
            IF Gt(signal.relevance_score, 80) THEN <<"DeepAnalyze", 90>>
            ELSE IF Gt(signal.relevance_score, 50) THEN <<"QueueForReview", 70>>
            ELSE <<"Archive", 80>>
      [] signal.type = "SecurityVulnerability" ->
            IF signal.severity = "Critical" THEN <<"ImmediateAlert", 95>>
            ELSE IF signal.severity = "High" THEN <<"DeepAnalyze", 85>>
            ELSE <<"StandardProcess", 70>>
      [] signal.type = "MarketSignal" ->
            IF Gt(signal.confidence, 90) THEN <<"RecommendAction", 85>>
            ELSE IF Gt(signal.confidence, 70) THEN <<"RequestValidation", 75>>
            ELSE <<"Monitor", 60>>
      [] signal.type = "ResearchPublished" ->
            IF Gt(signal.relevance_score, 70) THEN <<"DeepAnalyze", 80>>
            ELSE <<"Archive", 70>>
      [] signal.type = "SocialTrend" ->
            IF Gt(signal.momentum, 80) THEN <<"DeepAnalyze", 70>>
            ELSE <<"Monitor", 60>>

\* requires_approval
RequiresApprovalUpTo(action, confidence) ==
    CASE action = "DeepAnalyze" -> ~Gt(confidence, 85)
      [] action \in {"RecommendAction", "RequestValidation", "QueueForReview"} -> TRUE
      [] OTHER -> FALSE
RequiresApproval(action, confidence) ==
    CASE action = "ImmediateAlert" -> FALSE
      [] action = "Archive" -> FALSE
      [] action = "Monitor" -> FALSE
      [] action = "DeepAnalyze" -> Lt(confidence, 85)
      [] action = "RecommendAction" -> TRUE
      [] action = "RequestValidation" -> TRUE
      [] action = "QueueForReview" -> TRUE
      [] action = "StandardProcess" -> FALSE

\* the Decision process_signal builds (rationale and timestamp left out:
\* nothing modelled reads them)
MakeDecision(signal, id) ==
    LET rule == ApplyRules(signal)
    IN  [id |-> id, signal_type |-> GetSignalType(signal),
         action |-> rule[1], confidence |-> rule[2],
         requires_approval |-> RequiresApproval(rule[1], rule[2])]

(* DecisionEngine::process_signal *)
ProcessSignal(signal) ==
    /\ engine_in' = <<signal>>
    /\ engine_out' = <<MakeDecision(signal, next_decision)>>
    /\ next_decision' = next_decision + 1

-----------------------------------------------------------------------------
(* Properties of the DecisionEngine *)

\* C12: process_signal returns the (action, confidence) of the rule table for
\* every Signal, the boundaries included.
C12_RuleTable ==
    engine_in # << >> =>
        /\ engine_out # << >>
        /\ LET s == engine_in[1]
               d == <<engine_out[1].action, engine_out[1].confidence>>
           IN  /\ s.type = "NewTechnologyDetected" /\ s.relevance_score # NaN =>
                    /\ s.relevance_score > 80 => d = <<"DeepAnalyze", 90>>
                    /\ (50 < s.relevance_score /\ s.relevance_score <= 80) =>
                          d = <<"QueueForReview", 70>>
                    /\ s.relevance_score <= 50 => d = <<"Archive", 80>>
               /\ s.type = "SecurityVulnerability" =>
                    /\ s.severity = "Critical" => d = <<"ImmediateAlert", 95>>
                    /\ s.severity = "High" => d = <<"DeepAnalyze", 85>>
                    /\ s.severity \notin {"Critical", "High"} =>
                          d = <<"StandardProcess", 70>>
               /\ s.type = "MarketSignal" /\ s.confidence # NaN =>
                    /\ s.confidence > 90 => d = <<"RecommendAction", 85>>
                    /\ (70 < s.confidence /\ s.confidence <= 90) =>
                          d = <<"RequestValidation", 75>>
                    /\ s.confidence <= 70 => d = <<"Monitor", 60>>
               /\ s.type = "ResearchPublished" =>
                    IF s.relevance_score # NaN /\ s.relevance_score > 70
                    THEN d = <<"DeepAnalyze", 80>>
                    ELSE d = <<"Archive", 70>>
               /\ s.type = "SocialTrend" =>
                    IF s.momentum # NaN /\ s.momentum > 80
                    THEN d = <<"DeepAnalyze", 70>>
                    ELSE d = <<"Monitor", 60>>

\* a NewTechnologyDetected signal exactly on the 0.8 boundary was queued for
\* review
C12_Witness ==
    /\ engine_in = <<NewTechnologyDetected("name", 80, "GitHub")>>
    /\ engine_out # << >>
    /\ engine_out[1].action = "QueueForReview"
    /\ engine_out[1].confidence = 70

\* C13: requires_approval is false for ImmediateAlert, Archive, Monitor and
\* StandardProcess, true for RecommendAction, RequestValidation and
\* QueueForReview, and for DeepAnalyze true exactly when the confidence is
\* below 0.85; ResearchPublished at relevance 0.75 gives DeepAnalyze, 0.80,
\* approval required.
C13_ApprovalPolicy ==
    engine_out # << >> =>
        LET s == engine_in[1]
            d == engine_out[1]
        IN  /\ d.action \in {"ImmediateAlert", "Archive", "Monitor", "StandardProcess"}
                  => d.requires_approval = FALSE
            /\ d.action \in {"RecommendAction", "RequestValidation", "QueueForReview"}
                  => d.requires_approval = TRUE
            /\ d.action = "DeepAnalyze" => (d.requires_approval <=> d.confidence < 85)
            /\ (s.type = "ResearchPublished" /\ s.relevance_score = 75) =>
                  /\ d.action = "DeepAnalyze"
                  /\ d.confidence = 80
                  /\ d.requires_approval = TRUE

\* a High SecurityVulnerability gave DeepAnalyze at confidence 0.85, which
\* needs no approval
C13_Witness ==
    /\ engine_in # << >>
    /\ engine_in[1].type = "SecurityVulnerability"
    /\ engine_in[1].severity = "High"
    /\ engine_out # << >>
    /\ engine_out[1].action = "DeepAnalyze"
    /\ engine_out[1].confidence = 85
    /\ engine_out[1].requires_approval = FALSE

-----------------------------------------------------------------------------
(* TaskScheduler::add_finding *)

\* insert(0, finding), then truncate(max_findings_cache)
AddFindingKeepAll(cache, finding) == <<finding>> \o cache
AddFinding(cache, finding) ==
    LET c == <<finding>> \o cache
    IN  IF Len(c) > max_findings_cache THEN SubSeq(c, 1, max_findings_cache) ELSE c

\* `for finding in &findings { self.add_finding(finding.clone()) }`
RECURSIVE AddFindings(_, _)
AddFindings(cache, findings) ==
    IF findings = << >> THEN cache
    ELSE AddFindings(AddFinding(cache, Head(findings)), Tail(findings))

(* TaskScheduler::add_finding, called with the next finding *)
AddFindingCall ==
    /\ next_finding <= MaxCached
    /\ recent_findings' = AddFinding(recent_findings, next_finding)
    /\ next_finding' = next_finding + 1
    /\ sched_ret' = [NoRet EXCEPT !.op = "add_finding"]
    /\ UNCHANGED <<queue, next_id, taken>>

\* findings.iter().take(limit)
Take(findings, limit) ==
    [i \in 1..(IF limit < Len(findings) THEN limit ELSE Len(findings)) |-> findings[i]]

(* TaskScheduler::get_recent_findings(limit) *)
GetRecentFindings(limit) ==
    /\ sched_ret' = [NoRet EXCEPT !.op = "get_recent_findings", !.limit = limit,
                                  !.findings = Take(recent_findings, limit)]
    /\ UNCHANGED <<queue, next_id, taken, recent_findings, next_finding>>

-----------------------------------------------------------------------------
(* Properties of the findings cache *)

\* C20: after any sequence of add_finding calls the cache holds at most
\* max_findings_cache findings, the most recently added ones, most recent
\* first; get_recent_findings(limit) returns the first min(limit, size) of
\* them in that order and leaves the cache as it is.
C20_CacheBoundedMostRecentFirst ==
    /\ [](/\ Len(recent_findings) <= max_findings_cache
          /\ Len(recent_findings) =
                IF next_finding - 1 < max_findings_cache
                THEN next_finding - 1 ELSE max_findings_cache
          /\ \A i \in DOMAIN recent_findings : recent_findings[i] = next_finding - i)
    /\ [][sched_ret'.op = "get_recent_findings"
          => /\ recent_findings' = recent_findings
             /\ Len(sched_ret'.findings) =
                   IF sched_ret'.limit < Len(recent_findings)
                   THEN sched_ret'.limit ELSE Len(recent_findings)
             /\ \A i \in DOMAIN sched_ret'.findings :
                   sched_ret'.findings[i] = recent_findings[i]]_vars

\* a full cache that has evicted, read with a limit below its size
C20_Witness ==
    /\ next_finding > max_findings_cache + 2
    /\ Len(recent_findings) = max_findings_cache
    /\ sched_ret.op = "get_recent_findings"
    /\ sched_ret.limit = 1
    /\ sched_ret.findings = <<next_finding - 1>>

-----------------------------------------------------------------------------
(* CommanderUnit *)

\* CommanderStatus::default (uptime_seconds is left out: nothing modelled reads
\* it); the autonomy level is Supervised, as in CommanderConfig::default, and
\* no code reads or changes it
DefaultStatus ==
    [is_running |-> FALSE, tasks_completed |-> 0, tasks_pending |-> 0,
     last_decision_at |-> << >>, sync_status |-> "Disconnected",
     autonomy_level |-> "Supervised"]

NoStartRet == [calls |-> 0, result |-> "none"]

\* the priorities the callers of add_research_task use here
UnitPriorities == {Normal}

(* CommanderUnit::update_config *)
UnitUpdateConfig(e) ==
    /\ enabled' = e
    /\ UNCHANGED <<recent_findings, next_finding, status, shutdown_tx, next_loop, recv_ready,
                   loop_pc, loop_task, loop_search, loop_signal, chan_msg, chan_tx, decisions,
                   engine_vars, start_ret, lib_vars>>

(* CommanderUnit::start: nothing if disabled; otherwise is_running is set, a new
   shutdown channel replaces the old sender (which is dropped) and a control
   loop is spawned on the receiver; the loop enters its select! with an empty
   channel *)
StartedNow == [calls |-> start_ret.calls + 1, result |-> "Ok"]

StartAlways ==
    /\ start_ret.calls < MaxStarts
    /\ start_ret' = StartedNow
    /\ next_loop <= MaxLoops
    /\ status' = [status EXCEPT !.is_running = TRUE]
    /\ shutdown_tx' = next_loop
    /\ chan_tx' = [l \in Loops |->
                      IF l = next_loop THEN TRUE
                      ELSE IF l = shutdown_tx THEN FALSE
                      ELSE chan_tx[l]]
    /\ loop_pc' = [loop_pc EXCEPT ![next_loop] = "sleep"]
    /\ next_loop' = next_loop + 1
    /\ UNCHANGED <<recent_findings, next_finding, enabled, recv_ready, loop_task,
                   loop_search, loop_signal, chan_msg, decisions, engine_vars, lib_vars>>
Start ==
    /\ start_ret.calls < MaxStarts
    /\ start_ret' = StartedNow
    /\ IF ~enabled
       THEN UNCHANGED <<recent_findings, next_finding, enabled, status, shutdown_tx,
                        next_loop, recv_ready, loop_pc, loop_task, loop_search, loop_signal,
                        chan_msg, chan_tx, decisions, engine_vars, lib_vars>>
       ELSE
         /\ next_loop <= MaxLoops
         /\ status' = [status EXCEPT !.is_running = TRUE]
         /\ shutdown_tx' = next_loop
         /\ chan_tx' = [l \in Loops |->
                           IF l = next_loop THEN TRUE
                           ELSE IF l = shutdown_tx THEN FALSE
                           ELSE chan_tx[l]]
         /\ loop_pc' = [loop_pc EXCEPT ![next_loop] = "sleep"]
         /\ next_loop' = next_loop + 1
         /\ UNCHANGED <<recent_findings, next_finding, enabled, recv_ready, loop_task,
                        loop_search, loop_signal, chan_msg, decisions, engine_vars, lib_vars>>

(* CommanderUnit::stop: the sender is taken, () is sent on it (the send fails
   if the loop is gone) and it is dropped; is_running is cleared *)
Stop ==
    /\ IF shutdown_tx # 0
       THEN /\ chan_msg' = [chan_msg EXCEPT ![shutdown_tx] =
                               IF loop_pc[shutdown_tx] = "exited" THEN @ ELSE 1]
            /\ chan_tx' = [chan_tx EXCEPT ![shutdown_tx] = FALSE]
       ELSE UNCHANGED <<chan_msg, chan_tx>>
    /\ shutdown_tx' = 0
    /\ status' = [status EXCEPT !.is_running = FALSE]
    /\ UNCHANGED <<recent_findings, next_finding, enabled, next_loop, recv_ready,
                   loop_pc, loop_task, loop_search, loop_signal, decisions,
                   engine_vars, start_ret, lib_vars>>

(* CommanderUnit::add_research_task *)
AddResearchTaskUncounted(priority) ==
    /\ AddTask(priority)
    /\ status' = [status EXCEPT !.tasks_pending = @]
    /\ UNCHANGED <<recent_findings, next_finding, enabled, shutdown_tx, next_loop, recv_ready,
                   loop_pc, loop_task, loop_search, loop_signal, chan_msg, chan_tx, decisions,
                   engine_vars, start_ret, lib_vars>>
AddResearchTask(priority) ==
    /\ AddTask(priority)
    /\ status' = [status EXCEPT !.tasks_pending = @ + 1]
    /\ UNCHANGED <<recent_findings, next_finding, enabled, shutdown_tx, next_loop, recv_ready,
                   loop_pc, loop_task, loop_search, loop_signal, chan_msg, chan_tx, decisions,
                   engine_vars, start_ret, lib_vars>>

(* The control loop, select! branch `shutdown_rx.recv()`: a message, or None
   once the sender is dropped, ends the loop *)
LoopShutdownAnywhere(l) ==
    /\ loop_pc[l] \notin {"none", "exited"}
    /\ chan_msg[l] > 0 \/ ~chan_tx[l]
    /\ loop_pc' = [loop_pc EXCEPT ![l] = "exited"]
    /\ chan_msg' = [chan_msg EXCEPT ![l] = 0]
    /\ UNCHANGED <<recent_findings, next_finding, enabled, status, shutdown_tx,
                   next_loop, recv_ready, loop_task, loop_search, loop_signal, chan_tx, decisions,
                   engine_vars, start_ret, lib_vars>>
LoopShutdown(l) ==
    /\ loop_pc[l] = "sleep"
    /\ chan_msg[l] > 0 \/ ~chan_tx[l]
    /\ loop_pc' = [loop_pc EXCEPT ![l] = "exited"]
    /\ chan_msg' = [chan_msg EXCEPT ![l] = 0]
    /\ UNCHANGED <<recent_findings, next_finding, enabled, status, shutdown_tx,
                   next_loop, recv_ready, loop_task, loop_search, loop_signal, chan_tx, decisions,
                   engine_vars, start_ret, lib_vars>>

(* The control loop, select! branch `sleep(60 s)`: the tick begins with
   "Process pending tasks": get_next_task.  The sleep is made anew at every
   entry of select!, so it cannot end first if recv() was ready at the entry;
   it can if the shutdown arrives during the sleep. *)
TickBeginWhenConnected(l) ==
    /\ loop_pc[l] = "sleep"
    /\ ~recv_ready[l]
    /\ sync_status = "Connected"
    /\ GetNextTask(l)
    /\ loop_task' = [loop_task EXCEPT ![l] = sched_ret'.task]
    /\ loop_pc' = [loop_pc EXCEPT ![l] =
                      IF sched_ret'.task # << >> THEN "execute" ELSE "refresh"]
    /\ UNCHANGED <<recent_findings, next_finding, enabled, status, shutdown_tx,
                   next_loop, recv_ready, loop_search, loop_signal, chan_msg, chan_tx, decisions,
                   engine_vars, start_ret, lib_vars>>
TickBegin(l) ==
    /\ loop_pc[l] = "sleep"
    /\ ~recv_ready[l]
    /\ GetNextTask(l)
    /\ loop_task' = [loop_task EXCEPT ![l] = sched_ret'.task]
    /\ loop_pc' = [loop_pc EXCEPT ![l] =
                      IF sched_ret'.task # << >> THEN "execute" ELSE "refresh"]
    /\ UNCHANGED <<recent_findings, next_finding, enabled, status, shutdown_tx,
                   next_loop, recv_ready, loop_search, loop_signal, chan_msg, chan_tx, decisions,
                   engine_vars, start_ret, lib_vars>>

(* ResearchFinding.  A text (title, summary) is the sequence of its words; a
   keyword is contained in it when it is one of the words lowercased. *)

ToLowercase(word) ==
    CASE word = "Critical" -> "critical"
      [] word = "CVE" -> "cve"
      [] word = "High" -> "high"
      [] OTHER -> word

Contains(text, kw) == \E i \in DOMAIN text : ToLowercase(text[i]) = kw

\* format!("{:?}", source)
DebugSource(source) == source

Finding(source, title, summary, relevance_score, stars) ==
    [id |-> 0, source |-> source, title |-> title, summary |-> summary,
     relevance_score |-> relevance_score, tags |-> <<"cs.AI">>,
     stars |-> stars, engagement |-> << >>]

(* SignalProcessor::default *)
relevance_threshold == 60
popularity_threshold == 100

\* `finding.relevance_score < self.relevance_threshold`
BelowGateNever(finding) == FALSE
BelowGate(finding) == Lt(finding.relevance_score, relevance_threshold)

security_keywords == {"cve", "vulnerability", "security", "exploit", "patch"}

\* A metadata number is absent, << >>, or a u64 in two 32-bit halves, the low
\* one first and a zero high one left out: <<stars>> or <<low, high>>.
\* metadata.get(key).and_then(|v| v.as_u64()).unwrap_or(0) as u32: the cast
\* keeps the low half
MetadataU64(value) == IF value = << >> THEN 0 ELSE value[1]

(* SignalProcessor::process_github_finding *)
ProcessGithubFinding(finding) ==
    IF \E kw \in security_keywords :
          Contains(finding.title, kw) \/ Contains(finding.summary, kw)
    THEN <<SecurityVulnerability(
              IF Contains(finding.summary, "critical") THEN "Critical"
              ELSE IF Contains(finding.summary, "high") THEN "High"
              ELSE "Medium",
              <<finding.id>>, finding.title)>>
    ELSE IF MetadataU64(finding.stars) >= popularity_threshold
            \/ Ge(finding.relevance_score, 80)
         THEN <<NewTechnologyDetected(finding.title, finding.relevance_score, "GitHub")>>
         ELSE << >>

(* SignalProcessor::process_arxiv_finding *)
ProcessArxivFinding(finding) ==
    <<ResearchPublished(finding.title, finding.relevance_score,
                        IF finding.tags = << >> THEN "Unknown" ELSE finding.tags[1])>>

(* SignalProcessor::process_social_finding *)
ProcessSocialFinding(finding) ==
    IF MetadataU64(finding.engagement) > 1000 \/ Ge(finding.relevance_score, 75)
    THEN <<SocialTrend(finding.title, finding.relevance_score,
                       DebugSource(finding.source))>>
    ELSE << >>

(* SignalProcessor::process_custom_finding *)
ProcessCustomFinding(finding) ==
    IF Ge(finding.relevance_score, 70)
    THEN <<NewTechnologyDetected(finding.title, finding.relevance_score, "CustomFeed")>>
    ELSE << >>

(* SignalProcessor::process: Option<Signal> *)
Process(finding) ==
    IF BelowGate(finding) THEN << >>
    ELSE CASE finding.source = "GitHub" -> ProcessGithubFinding(finding)
           [] finding.source = "ArXiv" -> ProcessArxivFinding(finding)
           [] finding.source \in {"Twitter", "Farcaster", "LensProtocol"} ->
                 ProcessSocialFinding(finding)
           [] OTHER -> ProcessCustomFinding(finding)

(* The adapters' search (GitHubAdapter, ArXivAdapter): the findings built from
   the response are filtered by options.min_relevance and sorted by relevance,
   highest first, equal scores keeping their order *)

\* execute_task's SearchOptions: min_relevance: Some(0.5)
min_relevance == 50

\* findings.retain(|f| f.relevance_score >= min_rel)
Retain(findings) == SelectSeq(findings, LAMBDA f : Ge(f.relevance_score, min_relevance))

\* findings.sort_by(|a, b| b.relevance_score.partial_cmp(&a.relevance_score)...)
RECURSIVE InsertSorted(_, _)
InsertSorted(sorted, f) ==
    IF sorted = << >> THEN <<f>>
    ELSE IF Gt(f.relevance_score, Head(sorted).relevance_score)
         THEN <<f>> \o sorted
         ELSE <<Head(sorted)>> \o InsertSorted(Tail(sorted), f)

RECURSIVE SortByRelevance(_)
SortByRelevance(findings) ==
    IF findings = << >> THEN << >>
    ELSE InsertSorted(SortByRelevance(SubSeq(findings, 1, Len(findings) - 1)),
                      findings[Len(findings)])

Search(raw) == SortByRelevance(Retain(raw))

(* TaskScheduler::execute_task as the tick calls it.  outcome is how far it
   got: the registry could not be built, no adapter matched, the search failed,
   or it returned the findings of the response `raw`.  Every returned finding
   is stored; the first one gives the signal (the processor's, or the
   fallback). *)
ExecuteOutcomes == {"registry_error", "no_adapter", "search_error", "found"}

NoSearch == [outcome |-> "none", findings |-> << >>]

\* the findings execute_task gets to store, each with its id
FoundAnyway(outcome, raw, first) ==
    LET found == Search(raw)
    IN  [i \in 1..Len(found) |-> [found[i] EXCEPT !.id = first + i - 1]]
Found(outcome, raw, first) ==
    IF outcome = "found"
    THEN LET found == Search(raw)
         IN  [i \in 1..Len(found) |-> [found[i] EXCEPT !.id = first + i - 1]]
    ELSE << >>

NewFindings(findings) == [i \in 1..Len(findings) |-> findings[i].id]

\* "Process the best finding into a signal": the processor's signal, or the
\* fallback
SignalOnly(best_finding) == Process(best_finding)
SignalOrFallback(best_finding) ==
    LET signal == Process(best_finding)
    IN  IF signal = << >>
        THEN <<NewTechnologyDetected(best_finding.title, best_finding.relevance_score,
                                     DebugSource(best_finding.source))>>
        ELSE signal

Execute(l, outcome, raw) ==
    /\ loop_pc[l] = "execute"
    /\ LET findings == Found(outcome, raw, next_finding)
       IN  /\ next_finding + Len(findings) - 1 <= MaxFindings
           /\ loop_search' = [loop_search EXCEPT ![l] =
                                 [outcome |-> outcome, findings |-> findings]]
           /\ recent_findings' = AddFindings(recent_findings, NewFindings(findings))
           /\ next_finding' = next_finding + Len(findings)
           /\ loop_signal' = [loop_signal EXCEPT ![l] =
                                 IF findings = << >> THEN << >>
                                 ELSE LET signal == SignalOrFallback(findings[1])
                                      IN  IF signal = << >> THEN << >>
                                          ELSE <<[finding |-> findings[1].id,
                                                  processed |-> Process(findings[1]),
                                                  signal |-> signal[1]]>>]
    /\ loop_pc' = [loop_pc EXCEPT ![l] =
                      IF loop_signal'[l] # << >> THEN "decide" ELSE "refresh"]
    /\ loop_task' = [loop_task EXCEPT ![l] = << >>]
    /\ UNCHANGED <<enabled, status, shutdown_tx, next_loop, recv_ready, chan_msg, chan_tx, decisions,
                   engine_vars, start_ret, lib_vars>>

(* The tick: "Make decision based on signal" (process_signal), "Update
   status", "Handle decision action" (logging only) *)
Decide(l) ==
    /\ loop_pc[l] = "decide"
    /\ ProcessSignal(loop_signal[l][1].signal)
    /\ decisions' = decisions \cup {loop_signal[l][1].finding}
    /\ status' = [status EXCEPT !.last_decision_at = <<"now">>,
                                !.tasks_completed = @ + 1]
    /\ loop_signal' = [loop_signal EXCEPT ![l] = << >>]
    /\ loop_pc' = [loop_pc EXCEPT ![l] = "refresh"]
    /\ UNCHANGED <<recent_findings, next_finding, enabled, shutdown_tx, next_loop, recv_ready,
                   loop_task, loop_search, chan_msg, chan_tx, start_ret, lib_vars>>

(* The tick: "Sync with CKC if connected": the CkcSync status is copied into
   the unit's status; the loop is back at its select! and sleeps again *)
RefreshSyncUnready(l) ==
    /\ loop_pc[l] = "refresh"
    /\ status' = [status EXCEPT !.sync_status = sync_status]
    /\ loop_pc' = [loop_pc EXCEPT ![l] = "sleep"]
    /\ recv_ready' = recv_ready
    /\ loop_search' = [loop_search EXCEPT ![l] = NoSearch]
    /\ UNCHANGED <<recent_findings, next_finding, enabled, shutdown_tx, next_loop,
                   loop_task, loop_signal, chan_msg, chan_tx, decisions,
                   engine_vars, start_ret, lib_vars>>
RefreshSync(l) ==
    /\ loop_pc[l] = "refresh"
    /\ status' = [status EXCEPT !.sync_status = sync_status]
    /\ loop_pc' = [loop_pc EXCEPT ![l] = "sleep"]
    /\ recv_ready' = [recv_ready EXCEPT ![l] = chan_msg[l] > 0 \/ ~chan_tx[l]]
    /\ loop_search' = [loop_search EXCEPT ![l] = NoSearch]
    /\ UNCHANGED <<recent_findings, next_finding, enabled, shutdown_tx, next_loop,
                   loop_task, loop_signal, chan_msg, chan_tx, decisions,
                   engine_vars, start_ret, lib_vars>>

\* CommanderUnit::new(config, findings_tx)
UnitFields(config_enabled) ==
    /\ recent_findings = << >>
    /\ next_finding = 1
    /\ enabled = config_enabled
    /\ status = DefaultStatus
    /\ shutdown_tx = 0
    /\ next_loop = 1
    /\ recv_ready = [l \in Loops |-> FALSE]
    /\ loop_pc = [l \in Loops |-> "none"]
    /\ loop_task = [l \in Loops |-> << >>]
    /\ loop_search = [l \in Loops |-> NoSearch]
    /\ loop_signal = [l \in Loops |-> << >>]
    /\ chan_msg = [l \in Loops |-> 0]
    /\ chan_tx = [l \in Loops |-> FALSE]
    /\ decisions = {}
    /\ start_ret = NoStartRet
    /\ next_decision = 1
    /\ engine_in = << >>
    /\ engine_out = << >>

\* no library function has been called
LibIdle == lib_in = << >> /\ lib_out = << >>

UnitNew(config_enabled) == UnitFields(config_enabled) /\ LibIdle

-----------------------------------------------------------------------------
(* Properties of the control loop *)

InOfflineQueue(item_type, data) ==
    \E i \in DOMAIN offline_queue :
        /\ offline_queue[i].item_type = item_type
        /\ offline_queue[i].data = data

CachedFindings == {recent_findings[i] : i \in DOMAIN recent_findings}

\* C9: every finding stored in the findings cache and every Decision a tick
\* produces is eventually placed in the CkcSync offline queue.
C9_ResultsReachOfflineQueue ==
    /\ \A f \in 1..MaxFindings :
          (f \in CachedFindings) ~> InOfflineQueue("Finding", f)
    /\ \A d \in 1..MaxFindings :
          (d \in decisions) ~> InOfflineQueue("Decision", d)

-----------------------------------------------------------------------------
SchedInit ==
    /\ queue = << >>
    /\ next_id = 1
    /\ taken = << >>
    /\ sched_ret = NoRet

(* Specifications: one per component, the others left as constructed *)

\* HttpHelper::new's default limiter, RateLimiter::new(60, 60), scaled
RlDefault == RlNew(MaxRequests, MaxWindow)

\* the TaskScheduler's queue operations
InitSched == SchedInit /\ SyncInit /\ RlDefault /\ UnitNew(TRUE)

NextSched ==
    \/ \E p \in TaskPriority : AddTask(p) /\ UNCHANGED <<sync_vars, rl_vars, unit_vars>>
    \/ \E c \in Consumers : GetNextTask(c) /\ UNCHANGED <<sync_vars, rl_vars, unit_vars>>
    \/ ClearCompleted /\ UNCHANGED <<sync_vars, rl_vars, unit_vars>>
    \/ \E id \in 1..MaxTasks : CancelTask(id) /\ UNCHANGED <<sync_vars, rl_vars, unit_vars>>

SpecSched == InitSched /\ [][NextSched]_vars

\* CkcSync and its concurrent callers
InitSync == SchedInit /\ SyncInit /\ RlDefault /\ UnitNew(TRUE)

NextSync ==
    \/ \E config \in SyncConfigs :
          UpdateConfig(config) /\ UNCHANGED <<sched_vars, rl_vars, unit_vars>>
    \/ QueueForSync("Decision", "json") /\ UNCHANGED <<sched_vars, rl_vars, unit_vars>>
    \/ QueueFinding("json") /\ UNCHANGED <<sched_vars, rl_vars, unit_vars>>
    \/ \E p \in Callers :
          SyncNowBegin(p, "sync_now") /\ UNCHANGED <<sched_vars, rl_vars, unit_vars>>
    \/ \E p \in Callers :
          SyncNowBegin(p, "force_sync") /\ UNCHANGED <<sched_vars, rl_vars, unit_vars>>
    \/ \E p \in Callers : ConnectBegin(p) /\ UNCHANGED <<sched_vars, rl_vars, unit_vars>>
    \/ \E p \in Callers : ConnectSyncing(p) /\ UNCHANGED <<sched_vars, rl_vars, unit_vars>>
    \/ \E p \in Callers, connected \in BOOLEAN :
          ConnectProbe(p, connected) /\ UNCHANGED <<sched_vars, rl_vars, unit_vars>>
    \/ \E p \in Callers : Drain(p) /\ UNCHANGED <<sched_vars, rl_vars, unit_vars>>
    \/ \E p \in Callers : Stamp(p) /\ UNCHANGED <<sched_vars, rl_vars, unit_vars>>

SpecSync == InitSync /\ [][NextSync]_vars

\* one RateLimiter, any max_requests and window
InitRl ==
    /\ SchedInit /\ SyncInit /\ UnitNew(TRUE)
    /\ \E m \in 0..MaxRequests, w \in 0..MaxWindow : RlNew(m, w)

NextRl ==
    \/ RlCheck /\ UNCHANGED <<sched_vars, sync_vars, unit_vars>>
    \/ RlRecord /\ UNCHANGED <<sched_vars, sync_vars, unit_vars>>
    \/ RlAdvance /\ UNCHANGED <<sched_vars, sync_vars, unit_vars>>

SpecRl == InitRl /\ [][NextRl]_vars

\* a RateLimiter with one acquire() at a time, beside other check() and
\* record() calls; the runtime keeps polling the acquire() in progress
NextAcquire ==
    \/ RlCheck /\ UNCHANGED <<sched_vars, sync_vars, unit_vars>>
    \/ RlRecord /\ UNCHANGED <<sched_vars, sync_vars, unit_vars>>
    \/ RlAdvance /\ UNCHANGED <<sched_vars, sync_vars, unit_vars>>
    \/ AcquireBegin /\ UNCHANGED <<sched_vars, sync_vars, unit_vars>>
    \/ AcquireCheck /\ UNCHANGED <<sched_vars, sync_vars, unit_vars>>
    \/ AcquireSleep /\ UNCHANGED <<sched_vars, sync_vars, unit_vars>>
    \/ AcquireRecord /\ UNCHANGED <<sched_vars, sync_vars, unit_vars>>

SpecAcquire ==
    /\ InitRl
    /\ [][NextAcquire]_vars
    /\ WF_vars(AcquireStep /\ UNCHANGED <<sched_vars, sync_vars, unit_vars>>)

\* the TaskScheduler's findings cache, written and read directly
InitCache == SchedInit /\ SyncInit /\ RlDefault /\ UnitNew(TRUE)

NextCache ==
    \/ AddFindingCall /\ UNCHANGED <<sync_vars, rl_vars, loop_vars, engine_vars>>
    \/ \E limit \in 0..MaxLimit :
          GetRecentFindings(limit) /\ UNCHANGED <<sync_vars, rl_vars, loop_vars, engine_vars>>

SpecCache == InitCache /\ [][NextCache]_vars

\* the DecisionEngine called with any Signal
InitEngine == SchedInit /\ SyncInit /\ RlDefault /\ UnitNew(TRUE)

NextEngine ==
    \E signal \in Signals :
        /\ next_decision <= MaxDecisions
        /\ ProcessSignal(signal)
        /\ UNCHANGED <<sched_vars, sync_vars, rl_vars, tick_vars>>

SpecEngine == InitEngine /\ [][NextEngine]_vars

\* the CommanderUnit: its callers, its control loops and force_sync
InitUnit ==
    /\ SchedInit /\ SyncInit /\ RlDefault
    /\ \E e \in BOOLEAN : UnitNew(e)

\* the caller of force_sync
UnitCaller == 1

\* the responses of up to MaxFound repositories or papers
Responses(findings) == UNION {[1..n -> findings] : n \in 0..MaxFound}

\* here a search fails or finds the same popular repository, once or more
UnitOutcomes == {"search_error", "found"}

UnitResponses ==
    Responses({Finding("GitHub", <<"AI", "Framework">>, <<"Test", "summary">>, 80, <<500>>)})

\* a control loop whose execute_task calls end in one of `outcomes`, its
\* searches getting the responses `responses`
LoopStep(l, outcomes, responses) ==
    \/ LoopShutdown(l) /\ UNCHANGED <<sched_vars, sync_vars, rl_vars>>
    \/ TickBegin(l) /\ UNCHANGED <<sync_vars, rl_vars>>
    \/ \E outcome \in outcomes, raw \in responses :
          Execute(l, outcome, raw) /\ UNCHANGED <<sched_vars, sync_vars, rl_vars>>
    \/ Decide(l) /\ UNCHANGED <<sched_vars, sync_vars, rl_vars>>
    \/ RefreshSync(l) /\ UNCHANGED <<sched_vars, sync_vars, rl_vars>>

ForceSyncStep ==
    \/ SyncNowBegin(UnitCaller, "force_sync")
    \/ ConnectSyncing(UnitCaller)
    \/ \E connected \in BOOLEAN : ConnectProbe(UnitCaller, connected)
    \/ Drain(UnitCaller)
    \/ Stamp(UnitCaller)

NextUnit ==
    \/ \E e \in BOOLEAN : UnitUpdateConfig(e) /\ UNCHANGED <<sched_vars, sync_vars, rl_vars>>
    \/ Start /\ UNCHANGED <<sched_vars, sync_vars, rl_vars>>
    \/ Stop /\ UNCHANGED <<sched_vars, sync_vars, rl_vars>>
    \/ \E p \in UnitPriorities : AddResearchTask(p) /\ UNCHANGED <<sync_vars, rl_vars>>
    \/ \E l \in Loops : LoopStep(l, UnitOutcomes, UnitResponses)
    \/ ForceSyncStep /\ UNCHANGED <<sched_vars, rl_vars, unit_vars>>

SpecUnit == InitUnit /\ [][NextUnit]_vars

\* the runtime keeps polling a spawned control loop and a call in progress
SpecUnitFair ==
    /\ SpecUnit
    /\ \A l \in Loops : WF_vars(LoopStep(l, UnitOutcomes, UnitResponses))
    /\ WF_vars(ForceSyncStep /\ UNCHANGED <<sched_vars, rl_vars, unit_vars>>)

\* the CommanderUnit's callers and its control loops, the CkcSync left alone;
\* a search fails or finds one popular repository
LifeResponses ==
    {<<Finding("GitHub", <<"AI", "Framework">>, <<"Test", "summary">>, 80, <<500>>)>>}

NextLife ==
    \/ \E e \in BOOLEAN : UnitUpdateConfig(e) /\ UNCHANGED <<sched_vars, sync_vars, rl_vars>>
    \/ Start /\ UNCHANGED <<sched_vars, sync_vars, rl_vars>>
    \/ Stop /\ UNCHANGED <<sched_vars, sync_vars, rl_vars>>
    \/ AddResearchTask(Normal) /\ UNCHANGED <<sync_vars, rl_vars>>
    \/ \E l \in Loops : LoopShutdown(l) /\ UNCHANGED <<sched_vars, sync_vars, rl_vars>>
    \/ \E l \in Loops : TickBegin(l) /\ UNCHANGED <<sync_vars, rl_vars>>
    \/ \E l \in Loops, outcome \in UnitOutcomes, raw \in LifeResponses :
          Execute(l, outcome, raw) /\ UNCHANGED <<sched_vars, sync_vars, rl_vars>>
    \/ \E l \in Loops : Decide(l) /\ UNCHANGED <<sched_vars, sync_vars, rl_vars>>
    \/ \E l \in Loops : RefreshSync(l) /\ UNCHANGED <<sched_vars, sync_vars, rl_vars>>

SpecLife == InitUnit /\ [][NextLife]_vars

\* one control loop beside the CkcSync: findings are queued for sync and
\* force_sync connects and drains while the loop runs its ticks
NextIndep ==
    \/ next_loop = 1 /\ Start /\ UNCHANGED <<sched_vars, sync_vars, rl_vars>>
    \/ AddResearchTask(Normal) /\ UNCHANGED <<sync_vars, rl_vars>>
    \/ \E l \in Loops : TickBegin(l) /\ UNCHANGED <<sync_vars, rl_vars>>
    \/ \E l \in Loops, outcome \in UnitOutcomes, raw \in LifeResponses :
          Execute(l, outcome, raw) /\ UNCHANGED <<sched_vars, sync_vars, rl_vars>>
    \/ \E l \in Loops : Decide(l) /\ UNCHANGED <<sched_vars, sync_vars, rl_vars>>
    \/ \E l \in Loops : RefreshSync(l) /\ UNCHANGED <<sched_vars, sync_vars, rl_vars>>
    \/ QueueFinding("json") /\ UNCHANGED <<sched_vars, rl_vars, unit_vars>>
    \/ ForceSyncStep /\ UNCHANGED <<sched_vars, rl_vars, unit_vars>>

InitIndep == SchedInit /\ SyncInit /\ RlDefault /\ UnitNew(TRUE)

SpecIndep == InitIndep /\ [][NextIndep]_vars

\* the control loop, its searches finding repositories and papers of all
\* kinds: security-related or not, popular or not, with relevance on either
\* side of the adapters' min_relevance and of the SignalProcessor's gate
CriticalTitle == <<"Critical", "RCE", "vulnerability", "CVE">>
PlainTitle == <<"AI", "Framework">>
CriticalSummary == <<"a", "critical", "flaw">>
PlainSummary == <<"Test", "summary">>

TickFindings ==
    {Finding("GitHub", CriticalTitle, PlainSummary, 90, <<500>>),
     Finding("GitHub", CriticalTitle, CriticalSummary, 90, <<500>>),
     Finding("GitHub", PlainTitle, PlainSummary, 30, <<0>>),
     Finding("GitHub", PlainTitle, PlainSummary, 55, <<0>>),
     Finding("GitHub", PlainTitle, PlainSummary, 70, <<0>>),
     Finding("GitHub", PlainTitle, PlainSummary, 80, <<500>>),
     Finding("ArXiv", PlainTitle, PlainSummary, 50, << >>),
     Finding("ArXiv", PlainTitle, PlainSummary, 55, << >>),
     Finding("ArXiv", PlainTitle, PlainSummary, 75, << >>)}

TickResponses == Responses(TickFindings)

InitTick == SchedInit /\ SyncInit /\ RlDefault /\ UnitNew(TRUE)

\* start() is called once and never stop(): one control loop runs its ticks
NextTick ==
    \/ next_loop = 1 /\ Start /\ UNCHANGED <<sched_vars, sync_vars, rl_vars>>
    \/ AddResearchTask(Normal) /\ UNCHANGED <<sync_vars, rl_vars>>
    \/ \E l \in Loops : TickBegin(l) /\ UNCHANGED <<sync_vars, rl_vars>>
    \/ \E l \in Loops, outcome \in ExecuteOutcomes, raw \in TickResponses :
          Execute(l, outcome, raw) /\ UNCHANGED <<sched_vars, sync_vars, rl_vars>>
    \/ \E l \in Loops : Decide(l) /\ UNCHANGED <<sched_vars, sync_vars, rl_vars>>
    \/ \E l \in Loops : RefreshSync(l) /\ UNCHANGED <<sched_vars, sync_vars, rl_vars>>

SpecTick == InitTick /\ [][NextTick]_vars

-----------------------------------------------------------------------------
(* Properties of execute_task, the SignalProcessor and the tick's decision *)

\* the step of loop l that takes a decision: process_signal on the signal of
\* the search's best finding
DecideStep(l) == loop_pc[l] = "decide" /\ loop_pc'[l] = "refresh"

\* the step of loop l that is its execute_task call
ExecuteStep(l) == loop_pc[l] = "execute" /\ loop_pc'[l] # "execute"

\* the best finding of loop l's last search
BestFinding(l) == loop_search[l].findings[1]

\* C15: a GitHub finding at or above the 0.6 gate whose title has a security
\* keyword and the word "Critical", whatever its summary, is processed into
\* SecurityVulnerability with severity Critical, and the DecisionEngine then
\* returns ImmediateAlert, confidence 0.95, requires_approval false.
C15_CriticalTitleAlerts ==
    [][\A l \in Loops :
          (/\ DecideStep(l)
           /\ BestFinding(l).source = "GitHub"
           /\ Ge(BestFinding(l).relevance_score, relevance_threshold)
           /\ \E kw \in security_keywords : Contains(BestFinding(l).title, kw)
           /\ Contains(BestFinding(l).title, "critical"))
          => /\ loop_signal[l][1].processed =
                   <<SecurityVulnerability("Critical", <<BestFinding(l).id>>,
                                           BestFinding(l).title)>>
             /\ engine_out'[1].action = "ImmediateAlert"
             /\ engine_out'[1].confidence = 95
             /\ engine_out'[1].requires_approval = FALSE]_vars

\* the fallback signal execute_task builds from a finding
Fallback(finding) ==
    NewTechnologyDetected(finding.title, finding.relevance_score,
                          DebugSource(finding.source))

\* C16 as stated: a finding below the 0.6 gate never leads to a Decision: no
\* signal is passed on for it and no tick decides (and counts a completed
\* task) on its account.
C16_BelowGateNeverDecided ==
    [][\A l \in Loops :
          /\ (/\ ExecuteStep(l)
              /\ loop_search'[l].findings # << >>
              /\ Lt(loop_search'[l].findings[1].relevance_score, relevance_threshold))
             => loop_signal'[l] = << >>
          /\ DecideStep(l)
             => ~Lt(BestFinding(l).relevance_score, relevance_threshold)]_vars

\* C16, amended: a finding below the search's min_relevance of 0.5 never
\* leads to a Decision (no search returns it, so it is neither stored nor
\* decided on); a finding below the 0.6 gate is filtered by the
\* SignalProcessor before any source-specific branch (it yields no signal of
\* its own), but as the best finding of a search it is passed to the
\* DecisionEngine as the fallback NewTechnologyDetected signal, and the tick
\* produces a Decision and counts a completed task.
C16_BelowGateFiltered ==
    [][\A l \in Loops :
          /\ ExecuteStep(l)
             => /\ \A i \in DOMAIN loop_search'[l].findings :
                      Ge(loop_search'[l].findings[i].relevance_score, min_relevance)
                /\ (/\ loop_search'[l].findings # << >>
                    /\ Lt(loop_search'[l].findings[1].relevance_score,
                          relevance_threshold))
                   => /\ loop_signal'[l] # << >>
                      /\ loop_signal'[l][1].processed = << >>
                      /\ loop_signal'[l][1].signal =
                            Fallback(loop_search'[l].findings[1])
          /\ DecideStep(l)
             => /\ Ge(BestFinding(l).relevance_score, min_relevance)
                /\ Lt(BestFinding(l).relevance_score, relevance_threshold)
                   => /\ engine_in' = <<Fallback(BestFinding(l))>>
                      /\ engine_out'[1].signal_type = "new_technology_detected"
                      /\ status'.tasks_completed = status.tasks_completed + 1]_vars

\* a tick has decided on the fallback signal of a paper with relevance 0.55,
\* which the ArXiv branch would have turned into ResearchPublished
C16_Witness ==
    /\ engine_in = <<NewTechnologyDetected(PlainTitle, 55, "ArXiv")>>
    /\ engine_out # << >>
    /\ engine_out[1].action = "QueueForReview"
    /\ status.tasks_completed >= 1

\* C17: when the search returns at least one finding, execute_task returns a
\* signal: the SignalProcessor's for the first, highest-ranked finding if it
\* gives one, else the fallback NewTechnologyDetected with that finding's
\* title and relevance score; it returns none only when the search fails or
\* returns nothing.
C17_SignalOrFallback ==
    [][\A l \in Loops :
          ExecuteStep(l)
          => LET outcome == loop_search'[l].outcome
                 findings == loop_search'[l].findings
             IN  /\ (outcome = "found" /\ findings # << >>)
                    => /\ \A i \in DOMAIN findings :
                             ~Gt(findings[i].relevance_score,
                                 findings[1].relevance_score)
                       /\ loop_signal'[l] # << >>
                       /\ loop_signal'[l][1].finding = findings[1].id
                       /\ IF loop_signal'[l][1].processed # << >>
                          THEN loop_signal'[l][1].signal =
                                  loop_signal'[l][1].processed[1]
                          ELSE /\ loop_signal'[l][1].signal.type =
                                     "NewTechnologyDetected"
                               /\ loop_signal'[l][1].signal.name = findings[1].title
                               /\ loop_signal'[l][1].signal.relevance_score =
                                     findings[1].relevance_score
                 /\ loop_signal'[l] = << >>
                    => outcome # "found" \/ findings = << >>]_vars

\* execute_task has returned the fallback signal for a repository that passed
\* the gate but is neither security-related nor popular
C17_Witness ==
    \E l \in Loops :
        /\ loop_pc[l] = "decide"
        /\ Len(loop_search[l].findings) = MaxFound
        /\ loop_search[l].findings[1].source = "GitHub"
        /\ loop_search[l].findings[1].relevance_score = 70
        /\ loop_signal[l][1].processed = << >>
        /\ loop_signal[l][1].signal = NewTechnologyDetected(PlainTitle, 70, "GitHub")

ExecuteErrors == {"registry_error", "no_adapter", "search_error"}

-----------------------------------------------------------------------------
(* Properties of start, stop and the control loop *)

\* C21: a stop() issued while a tick is executing does not interrupt it: the
\* loop exits only from the select between ticks; a pending shutdown message
\* is left in the channel by every step of the tick, and the tick's steps
\* (execute_task, the decision with its status update, the status refresh)
\* follow one another whether or not a shutdown is pending.
C21_StopTakesEffectBetweenTicks ==
    [][\A l \in Loops :
          /\ loop_pc'[l] = "exited" /\ loop_pc[l] # "exited" => loop_pc[l] = "sleep"
          /\ loop_pc[l] \in {"execute", "decide", "refresh"}
             => /\ chan_msg'[l] >= chan_msg[l]
                /\ loop_pc'[l] # loop_pc[l]
                   => /\ loop_pc[l] = "execute" => loop_pc'[l] \in {"decide", "refresh"}
                      /\ loop_pc[l] = "decide"
                         => /\ loop_pc'[l] = "refresh"
                            /\ status'.tasks_completed = status.tasks_completed + 1
                            /\ status'.last_decision_at # << >>
                            /\ engine_out' # << >>
                      /\ loop_pc[l] = "refresh" => loop_pc'[l] = "sleep"]_vars

\* stop() was called while the tick had a task in hand, and the tick has gone
\* on to its decision and status update
C21_Witness ==
    \E l \in Loops :
        /\ loop_pc[l] = "refresh"
        /\ loop_search[l].outcome = "found"
        /\ chan_msg[l] > 0
        /\ ~status.is_running
        /\ status.tasks_completed >= 1
        /\ shutdown_tx = 0

\* C22: start() with config.enabled = false is a no-op: it returns Ok, leaves
\* is_running and every other status field as they were, spawns no control
\* loop, and no queued task is dequeued as a result (tasks are dequeued only
\* by a spawned loop); with enabled = true it sets is_running and spawns the
\* loop.
C22_StartDisabledIsNoOp ==
    /\ [][start_ret'.calls = start_ret.calls + 1
          => /\ start_ret'.result = "Ok"
             /\ IF ~enabled
                THEN /\ status' = status
                     /\ next_loop' = next_loop
                     /\ loop_pc' = loop_pc
                     /\ shutdown_tx' = shutdown_tx
                     /\ chan_tx' = chan_tx
                     /\ chan_msg' = chan_msg
                     /\ queue' = queue
                     /\ taken' = taken
                ELSE /\ status' = [status EXCEPT !.is_running = TRUE]
                     /\ next_loop' = next_loop + 1
                     /\ loop_pc[next_loop] = "none"
                     /\ loop_pc'[next_loop] = "sleep"]_vars
    /\ [](next_loop = 1
          => /\ ~status.is_running
             /\ taken = << >>
             /\ status.tasks_completed = 0
             /\ \A l \in Loops : loop_pc[l] = "none")

\* start() has been called, more than once, on a disabled unit with a task
\* queued
C22_Witness ==
    /\ start_ret.calls >= 2
    /\ start_ret.result = "Ok"
    /\ ~enabled
    /\ next_loop = 1
    /\ queue # << >>
    /\ status.tasks_pending >= 1

-----------------------------------------------------------------------------
(* research::processors::merge_findings.  A title is the sequence of its
   characters. *)

\* char::to_lowercase, is_alphanumeric, is_whitespace on the characters used
ToLowercaseChar(c) ==
    CASE c = "T" -> "t"
      [] c = "O" -> "o"
      [] OTHER -> c

IsAlphanumeric(c) == c \in {"T", "O", "t", "o", "e", "s", "i", "l", "h", "r", "2"}
IsWhitespace(c) == c \in {" ", "\t"}

\* split_whitespace(): the maximal runs of non-whitespace characters
RECURSIVE SplitWhitespace(_, _)
SplitWhitespace(chars, word) ==
    IF chars = << >>
    THEN IF word = << >> THEN << >> ELSE <<word>>
    ELSE IF IsWhitespace(Head(chars))
         THEN (IF word = << >> THEN << >> ELSE <<word>>)
              \o SplitWhitespace(Tail(chars), << >>)
         ELSE SplitWhitespace(Tail(chars), Append(word, Head(chars)))

\* join(" ")
RECURSIVE Join(_)
Join(words) ==
    IF words = << >> THEN << >>
    ELSE IF Len(words) = 1 THEN words[1]
    ELSE words[1] \o <<" ">> \o Join(Tail(words))

(* normalize_title *)
NormalizeTitle(title) ==
    LET lower == [i \in DOMAIN title |-> ToLowercaseChar(title[i])]
        kept == SelectSeq(lower, LAMBDA c : IsAlphanumeric(c) \/ IsWhitespace(c))
    IN  Join(SplitWhitespace(kept, << >>))

\* tests::make_finding(title, score)
MakeFinding(title, score) == Finding("GitHub", title, <<"Test", "summary">>, score, << >>)

\* all_findings.into_iter().flatten().collect()
RECURSIVE Flatten(_)
Flatten(batches) ==
    IF batches = << >> THEN << >> ELSE Head(batches) \o Flatten(Tail(batches))

\* all.sort_by(|a, b| b.relevance_score.partial_cmp(&a.relevance_score).unwrap()):
\* the unwrap panics as soon as a NaN score is compared, which any sort of two
\* or more findings does; otherwise a stable sort, highest score first
SortPanics(all) ==
    Len(all) >= 2 /\ \E i \in DOMAIN all : all[i].relevance_score = NaN

SortUnsorted(all) == all
SortDescending(all) == SortByRelevance(all)

\* all.retain(..) with seen_titles: the first finding of every normalized title
Deduplicate(all) ==
    SelectSeq([i \in DOMAIN all |->
                  [f |-> all[i],
                   seen |-> \E j \in 1..(i - 1) :
                               NormalizeTitle(all[j].title) = NormalizeTitle(all[i].title)]],
              LAMBDA e : ~e.seen)

\* ProcessorConfig::default: min_score_threshold 0.3, deduplicate true
min_score_threshold == 30
ProcessorConfigs == {[min_score_threshold |-> min_score_threshold, deduplicate |-> d] :
                        d \in BOOLEAN}

(* merge_findings: ProcessingResult (avg_score left out: nothing modelled
   reads it), or the panic of the sort *)
MergeFindings(all_findings, config) ==
    LET all == Flatten(all_findings)
        sorted == SortDescending(all)
        deduped == IF config.deduplicate
                   THEN [i \in DOMAIN Deduplicate(sorted) |-> Deduplicate(sorted)[i].f]
                   ELSE sorted
        kept == SelectSeq(deduped,
                          LAMBDA f : Ge(f.relevance_score, config.min_score_threshold))
    IN  IF SortPanics(all)
        THEN [result |-> "panic"]
        ELSE [result |-> "Ok",
              findings |-> kept,
              stats |-> [input_count |-> Len(all),
                         output_count |-> Len(kept),
                         threshold_filtered |->
                             Len(SelectSeq(deduped,
                                   LAMBDA f : Lt(f.relevance_score,
                                                 config.min_score_threshold))),
                         duplicates_removed |-> Len(sorted) - Len(deduped)]]

MergeFindingsCall ==
    /\ lib_in # << >>
    /\ lib_in.fn = "merge_findings"
    /\ lib_out = << >>
    /\ lib_out' = MergeFindings(lib_in.all_findings, lib_in.config)
    /\ UNCHANGED <<sched_vars, sync_vars, rl_vars, recent_findings, next_finding, enabled,
                   status, shutdown_tx, next_loop, recv_ready, loop_pc, loop_task, loop_search,
                   loop_signal, chan_msg, chan_tx, decisions, start_ret, engine_vars,
                   lib_in>>

\* number of findings the merged batches hold together
MaxMerged == 3

\* the titles "Test Title" (twice, differing in case, punctuation and
\* whitespace) and "Other", scored above and below the threshold or NaN
TestTitle == <<"T", "e", "s", "t", " ", "T", "i", "t", "l", "e">>
TestTitleNoisy == <<" ", "t", "e", "s", "t", "\t", " ", "t", "i", "t", "l", "e", "!">>
OtherTitle == <<"O", "t", "h", "e", "r">>

MergeInputs ==
    {MakeFinding(TestTitle, 80), MakeFinding(TestTitle, 70),
     MakeFinding(TestTitleNoisy, 70), MakeFinding(TestTitleNoisy, 90),
     MakeFinding(TestTitle, 20), MakeFinding(OtherTitle, 70),
     MakeFinding(OtherTitle, NaN)}

\* two batches holding up to MaxMerged findings
MergeBatches ==
    {<<SubSeq(all, 1, k), SubSeq(all, k + 1, Len(all))>> :
        <<all, k>> \in {<<a, i>> \in (UNION {[1..n -> MergeInputs] : n \in 0..MaxMerged})
                                     \X (0..MaxMerged) : i <= Len(a)}}

\* the calls of merge_findings: its two arguments
MergeCalls ==
    {[fn |-> "merge_findings", all_findings |-> all_findings, config |-> config] :
        all_findings \in MergeBatches, config \in ProcessorConfigs}

InitMerge ==
    /\ SchedInit /\ SyncInit /\ RlDefault /\ UnitFields(TRUE)
    /\ lib_in \in MergeCalls
    /\ lib_out = << >>

NextMerge == MergeFindingsCall

SpecMerge == InitMerge /\ [][NextMerge]_vars

\* the findings of `all` whose normalized title is `key`
TitleGroup(all, key) == {i \in DOMAIN all : NormalizeTitle(all[i].title) = key}

\* C24: merge_findings with deduplication keeps, of every group of input
\* findings with the same normalized title (case, punctuation and whitespace
\* ignored), exactly one: one with the group's highest relevance score, which
\* is in the result unless the threshold filter drops it; duplicates_removed
\* is the number of findings dropped as duplicates.
C24_DedupKeepsBestPerTitle ==
    /\ NormalizeTitle(TestTitleNoisy) = NormalizeTitle(TestTitle)
    /\ NormalizeTitle(OtherTitle) # NormalizeTitle(TestTitle)
    /\ (/\ lib_in # << >>
        /\ lib_in.fn = "merge_findings"
        /\ lib_in.config.deduplicate
        /\ lib_out # << >>
        /\ lib_out.result = "Ok")
       => LET all == Flatten(lib_in.all_findings)
              out == lib_out.findings
              keys == {NormalizeTitle(all[i].title) : i \in DOMAIN all}
              threshold == lib_in.config.min_score_threshold
          IN  /\ lib_out.stats.duplicates_removed = Len(all) - Cardinality(keys)
              /\ \A key \in keys :
                    LET group == TitleGroup(all, key)
                        best == CHOOSE i \in group :
                                   \A j \in group : ~Gt(all[j].relevance_score,
                                                        all[i].relevance_score)
                        survivors == TitleGroup(out, key)
                    IN  IF Ge(all[best].relevance_score, threshold)
                        THEN /\ Cardinality(survivors) = 1
                             /\ \A i \in survivors :
                                   out[i].relevance_score = all[best].relevance_score
                        ELSE survivors = {}

\* the two batches of the test, the duplicate differing in case, punctuation
\* and whitespace: one survivor scored 0.8, duplicates_removed = 1
C24_Witness ==
    /\ lib_in # << >>
    /\ lib_in.fn = "merge_findings"
    /\ lib_in.all_findings =
          <<<<MakeFinding(TestTitleNoisy, 70)>>, <<MakeFinding(TestTitle, 80)>>>>
    /\ lib_in.config.deduplicate
    /\ lib_out # << >>
    /\ lib_out.result = "Ok"
    /\ lib_out.findings = <<MakeFinding(TestTitle, 80)>>
    /\ lib_out.stats.duplicates_removed = 1

-----------------------------------------------------------------------------
(* research::processors::relevance_scorer.  A component score is an f32 in
   hundredths; a weight is any f32: <<"fin", hundredths>>, <<"nan", 0>>, or
   <<"inf", sign>>; the weighted sum is in ten-thousandths. *)

Fin(n) == <<"fin", n>>
FNaN == <<"nan", 0>>
FInf(sign) == <<"inf", sign>>

\* component * weight, the component finite and not negative
WeightedTerm(component, weight) ==
    CASE weight[1] = "nan" -> FNaN
      [] weight[1] = "inf" -> IF component = 0 THEN FNaN ELSE weight
      [] OTHER -> Fin(component * weight[2])

\* a + b
FAdd(a, b) ==
    CASE a[1] = "nan" \/ b[1] = "nan" -> FNaN
      [] a[1] = "inf" /\ b[1] = "inf" -> IF a[2] = b[2] THEN a ELSE FNaN
      [] a[1] = "inf" -> a
      [] b[1] = "inf" -> b
      [] OTHER -> Fin(a[2] + b[2])

\* a < b, false when either is NaN
FLess(a, b) ==
    CASE a[1] = "nan" \/ b[1] = "nan" -> FALSE
      [] a[1] = "inf" /\ b[1] = "inf" -> a[2] < b[2]
      [] a[1] = "inf" -> a[2] < 0
      [] b[1] = "inf" -> b[2] > 0
      [] OTHER -> a[2] < b[2]

\* f32::max and f32::min: when one operand is NaN, the other is returned
FMax(a, b) ==
    IF a[1] = "nan" THEN b ELSE IF b[1] = "nan" THEN a ELSE IF FLess(a, b) THEN b ELSE a

FMin(a, b) ==
    IF a[1] = "nan" THEN b ELSE IF b[1] = "nan" THEN a ELSE IF FLess(b, a) THEN b ELSE a

\* a sum in ten-thousandths as a relevance_score in hundredths
Infinity == 1000000
ToScore(total) ==
    CASE total[1] = "nan" -> NaN
      [] total[1] = "inf" -> total[2] * Infinity
      [] total[2] < 0 -> 0 - ((0 - total[2]) \div 100)
      [] OTHER -> total[2] \div 100

(* u64: four 16-bit limbs, lowest first *)
Limb == 65536
U64(n) == <<n, 0, 0, 0>>
U64Max == <<Limb - 1, Limb - 1, Limb - 1, Limb - 1>>

\* a + b and a * k (k small): the wrapped value and whether it overflowed
AddU64(a, b) ==
    LET s1 == a[1] + b[1]
        s2 == a[2] + b[2] + (s1 \div Limb)
        s3 == a[3] + b[3] + (s2 \div Limb)
        s4 == a[4] + b[4] + (s3 \div Limb)
    IN  [value |-> <<s1 % Limb, s2 % Limb, s3 % Limb, s4 % Limb>>,
         overflow |-> s4 \div Limb > 0]

MulU64(a, k) ==
    LET p1 == a[1] * k
        p2 == a[2] * k + (p1 \div Limb)
        p3 == a[3] * k + (p2 \div Limb)
        p4 == a[4] * k + (p3 \div Limb)
    IN  [value |-> <<p1 % Limb, p2 % Limb, p3 % Limb, p4 % Limb>>,
         overflow |-> p4 \div Limb > 0]

\* ScoringWeights::default
DefaultWeights ==
    [keyword_match |-> Fin(40), recency |-> Fin(20), source_authority |-> Fin(25),
     engagement |-> Fin(15)]

\* RelevanceScorer: with_keywords(..).with_weights(..).with_threshold(..)
Scorer(keywords, weights, min_threshold) ==
    [keywords |-> keywords, weights |-> weights, min_threshold |-> min_threshold]

\* a finding as the scorer reads it: discovered_at in days, the metadata's
\* "stars", "citations" and "likes" each absent or a u64
ScoredFinding(source, title, discovered_at, stars, citations, likes) ==
    [source |-> source, title |-> title, summary |-> <<"Test", "summary">>,
     relevance_score |-> 0, discovered_at |-> discovered_at, tags |-> << >>,
     metadata |-> [stars |-> stars, citations |-> citations, likes |-> likes]]

(* keyword_score *)
KeywordScore(scorer, finding) ==
    IF scorer.keywords = {}
    THEN 50
    ELSE LET text == finding.title \o finding.summary \o finding.tags
             matches == Cardinality({kw \in scorer.keywords : Contains(text, kw)})
         IN  (matches * 100) \div Cardinality(scorer.keywords)

(* recency_score: now and discovered_at in days *)
RecencyScore(finding, utc_now) ==
    LET age == utc_now - finding.discovered_at
    IN  IF age < 1 THEN 100
        ELSE IF age < 7 THEN 80
        ELSE IF age < 30 THEN 50
        ELSE 20

(* source_authority_score *)
SourceAuthorityScore(finding) ==
    CASE finding.source = "ArXiv" -> 95
      [] finding.source = "GitHub" -> 85
      [] finding.source = "Twitter" -> 50
      [] finding.source = "Farcaster" -> 60
      [] finding.source = "LensProtocol" -> 60
      [] OTHER -> 70

\* .and_then(|v| v.as_u64()).unwrap_or(0)
AsU64OrZero(opt) == IF opt = << >> THEN U64(0) ELSE opt[1]

\* stars + (citations * 10) + likes
Engagement(finding) ==
    LET product == MulU64(AsU64OrZero(finding.metadata.citations), 10)
        first == AddU64(AsU64OrZero(finding.metadata.stars), product.value)
        second == AddU64(first.value, AsU64OrZero(finding.metadata.likes))
    IN  [value |-> second.value,
         overflow |-> product.overflow \/ first.overflow \/ second.overflow]

\* (engagement as f32).ln() / 10.0_f32.ln(), in hundredths, for engagement >= 1:
\* below 1.0 up to 9, and from 10 on at least 1.0, growing with the top limb
Log10(engagement) ==
    IF engagement[2] # 0 \/ engagement[3] # 0 \/ engagement[4] # 0 \/ engagement[1] >= 10
    THEN 100 * (IF engagement[4] # 0 THEN 15 ELSE IF engagement[3] # 0 THEN 10
                ELSE IF engagement[2] # 0 THEN 5 ELSE 1)
    ELSE <<0, 30, 48, 60, 70, 78, 85, 90, 95>>[engagement[1]]

(* engagement_score of the wrapped sum *)
EngagementScore(finding) ==
    LET engagement == Engagement(finding).value
        raw == IF engagement = U64(0) THEN 30 ELSE Log10(engagement)
    IN  IF raw < 100 THEN raw ELSE 100

\* an arithmetic overflow panics where overflow checks are on (the debug
\* profile) and wraps where they are off (the release profile)
Builds == {"debug", "release"}
ScorePanics(finding, build) == build = "debug" /\ Engagement(finding).overflow

\* the weighted sum
WeightedSum(scorer, finding, utc_now) ==
    FAdd(FAdd(FAdd(WeightedTerm(KeywordScore(scorer, finding), scorer.weights.keyword_match),
                   WeightedTerm(RecencyScore(finding, utc_now), scorer.weights.recency)),
              WeightedTerm(SourceAuthorityScore(finding), scorer.weights.source_authority)),
         WeightedTerm(EngagementScore(finding), scorer.weights.engagement))

(* score: total.max(0.0).min(1.0) *)
ScoreUnclamped(scorer, finding, utc_now) == ToScore(WeightedSum(scorer, finding, utc_now))
Score(scorer, finding, utc_now) ==
    ToScore(FMin(FMax(WeightedSum(scorer, finding, utc_now), Fin(0)), Fin(10000)))

(* score_all *)
ScoreAll(scorer, findings, utc_now) ==
    [i \in DOMAIN findings |->
        [findings[i] EXCEPT !.relevance_score = Score(scorer, findings[i], utc_now)]]

(* RelevanceScorer::process (avg_score left out) *)
ScorerProcess(scorer, findings, utc_now, build) ==
    LET scored == ScoreAll(scorer, findings, utc_now)
        sorted == SortByRelevance(scored)
        threshold_filtered ==
            Len(SelectSeq(sorted, LAMBDA f : Lt(f.relevance_score, scorer.min_threshold)))
    IN  IF \E i \in DOMAIN findings : ScorePanics(findings[i], build)
           \/ SortPanics(scored)
        THEN [result |-> "panic"]
        ELSE [result |-> "Ok",
              findings |-> SelectSeq(sorted,
                               LAMBDA f : Ge(f.relevance_score, scorer.min_threshold)),
              stats |-> [input_count |-> Len(findings),
                         output_count |-> Len(findings) - threshold_filtered,
                         threshold_filtered |-> threshold_filtered,
                         duplicates_removed |-> 0]]

\* the three entry points, applied to the call held in lib_in
ScoreCall ==
    /\ lib_in # << >>
    /\ lib_in.fn = "score"
    /\ lib_out = << >>
    /\ lib_out' = IF ScorePanics(lib_in.findings[1], lib_in.build)
                  THEN [result |-> "panic"]
                  ELSE [result |-> "Ok",
                        findings |-> ScoreAll(lib_in.scorer, lib_in.findings, lib_in.now)]
    /\ UNCHANGED <<sched_vars, sync_vars, rl_vars, recent_findings, next_finding, enabled,
                   status, shutdown_tx, next_loop, recv_ready, loop_pc, loop_task, loop_search,
                   loop_signal, chan_msg, chan_tx, decisions, start_ret, engine_vars,
                   lib_in>>

ProcessCall ==
    /\ lib_in # << >>
    /\ lib_in.fn = "process"
    /\ lib_out = << >>
    /\ lib_out' = ScorerProcess(lib_in.scorer, lib_in.findings, lib_in.now, lib_in.build)
    /\ UNCHANGED <<sched_vars, sync_vars, rl_vars, recent_findings, next_finding, enabled,
                   status, shutdown_tx, next_loop, recv_ready, loop_pc, loop_task, loop_search,
                   loop_signal, chan_msg, chan_tx, decisions, start_ret, engine_vars,
                   lib_in>>

\* findings handed to one call of process
MaxScored == 2

Now == 40

\* weights: the default, or any mix of the default, a negative, a large, an
\* infinite and a NaN value
WeightValues(default) == {default, Fin(0 - 300), Fin(900), FNaN, FInf(1), FInf(0 - 1)}
AllWeights ==
    {[keyword_match |-> k, recency |-> r, source_authority |-> a, engagement |-> e] :
        k \in WeightValues(DefaultWeights.keyword_match),
        r \in WeightValues(DefaultWeights.recency),
        a \in WeightValues(DefaultWeights.source_authority),
        e \in WeightValues(DefaultWeights.engagement)}
SomeWeights ==
    {DefaultWeights,
     [DefaultWeights EXCEPT !.engagement = FNaN],
     [DefaultWeights EXCEPT !.recency = Fin(900)],
     [DefaultWeights EXCEPT !.keyword_match = FInf(1), !.source_authority = FInf(0 - 1)],
     [DefaultWeights EXCEPT !.source_authority = Fin(0 - 300)]}

KeywordSets == {{}, {"cve"}, {"rust", "cve"}}

\* no metadata; one star; stars, citations and likes; citations whose
\* tenfold overflows a u64
Metadata ==
    {<< << >>, << >>, << >> >>,
     << <<U64(1)>>, << >>, << >> >>,
     << <<U64(100)>>, <<U64(2)>>, <<U64(3)>> >>,
     << <<U64(5)>>, <<U64Max>>, << >> >>}

ScoredFindings ==
    {ScoredFinding(source, <<"Critical", "CVE">>, discovered_at, m[1], m[2], m[3]) :
        source \in {"ArXiv", "Twitter"}, discovered_at \in {Now - 35, Now}, m \in Metadata}

ScoreCalls ==
    {[fn |-> "score", scorer |-> Scorer(keywords, weights, 30), findings |-> <<finding>>,
      now |-> Now, build |-> build] :
        keywords \in KeywordSets, weights \in AllWeights, finding \in ScoredFindings,
        build \in Builds}

ProcessCalls ==
    {[fn |-> "process", scorer |-> Scorer({"cve"}, weights, min_threshold),
      findings |-> findings, now |-> Now, build |-> build] :
        weights \in SomeWeights, min_threshold \in {0, 30},
        findings \in UNION {[1..n -> {f \in ScoredFindings : f.source = "ArXiv"}] :
                               n \in 0..MaxScored},
        build \in Builds}

InitScore ==
    /\ SchedInit /\ SyncInit /\ RlDefault /\ UnitFields(TRUE)
    /\ lib_in \in ScoreCalls \union ProcessCalls
    /\ lib_out = << >>

NextScore ==
    \/ ScoreCall
    \/ ProcessCall

SpecScore == InitScore /\ [][NextScore]_vars

\* C25: whatever the finding, the keywords and the weights, every score that
\* score, score_all or process returns is a number in [0.0, 1.0].
C25_ScoreInUnitInterval ==
    (/\ lib_in # << >>
     /\ lib_in.fn \in {"score", "process"}
     /\ lib_out # << >>
     /\ lib_out.result = "Ok")
    => \A i \in DOMAIN lib_out.findings :
          /\ lib_out.findings[i].relevance_score # NaN
          /\ lib_out.findings[i].relevance_score >= 0
          /\ lib_out.findings[i].relevance_score <= 100

\* process has clamped a weighted sum above 1.0 to 1.0
C25_Witness ==
    /\ lib_in # << >>
    /\ lib_in.fn = "process"
    /\ Len(lib_in.findings) = 2
    /\ lib_in.scorer.weights.recency = Fin(900)
    /\ lib_out # << >>
    /\ lib_out.result = "Ok"
    /\ Len(lib_out.findings) = 2
    /\ lib_out.findings[1].relevance_score = 100
    /\ ScoreUnclamped(lib_in.scorer, lib_in.findings[1], lib_in.now) > 100

-----------------------------------------------------------------------------
(* error::retry.  lib_in holds the call's config, lib_out the frame of the
   running call: the loop's `attempt`, `last_error`, the position, the result
   once returned, and the calls of the operation and the sleeps so far, in
   order.  The length of a sleep (delay_for_attempt) is left out. *)

\* ClaError values an operation may fail with (the Internal one is retry's own)
ClaErrors == {"Network::Timeout", "Network::ConnectionFailed", "Network::Offline",
              "Security::Unauthorized"}

(* ClaError::should_retry: recovery_action() is RecoveryAction::Retry *)
ShouldRetry(error) ==
    error \in {"Network::ConnectionFailed", "Network::Timeout", "Resource::NotIdle",
               "Resource::CpuLimitExceeded"}

\* what one call of the operation gives
OpOutcomes == {<<"Ok", 42>>} \union {<<"Err", e>> : e \in ClaErrors}

\* largest max_attempts of a config
MaxRetryAttempts == 5

RetryConfigs == {[max_attempts |-> n] : n \in 0..MaxRetryAttempts}

RetryFrame ==
    [pc |-> "loop", attempt |-> 0, last_error |-> << >>, result |-> << >>, events |-> << >>]

\* `if attempt + 1 < config.max_attempts`: a sleep follows the failed attempt
SleepsAfterAlways(attempt, config) == TRUE
SleepsAfter(attempt, config) == attempt + 1 < config.max_attempts

\* one turn of the loop: operation().await and the match on its result
RetryAttempt(outcome) ==
    /\ lib_in # << >>
    /\ lib_in.fn = "retry"
    /\ lib_out.pc = "loop"
    /\ lib_out.attempt < lib_in.config.max_attempts
    /\ LET called == [lib_out EXCEPT !.events = Append(@, outcome)]
       IN  lib_out' =
              IF outcome[1] = "Ok" \/ ~ShouldRetry(outcome[2])
              THEN [called EXCEPT !.pc = "returned", !.result = outcome]
              ELSE IF SleepsAfter(lib_out.attempt, lib_in.config)
                   THEN [called EXCEPT !.pc = "sleep", !.last_error = <<outcome[2]>>]
                   ELSE [called EXCEPT !.attempt = @ + 1, !.last_error = <<outcome[2]>>]
    /\ UNCHANGED <<sched_vars, sync_vars, rl_vars, recent_findings, next_finding, enabled,
                   status, shutdown_tx, next_loop, recv_ready, loop_pc, loop_task, loop_search,
                   loop_signal, chan_msg, chan_tx, decisions, start_ret, engine_vars,
                   lib_in>>

\* sleep(delay).await has elapsed: the next turn of the loop
RetrySleep ==
    /\ lib_in # << >>
    /\ lib_in.fn = "retry"
    /\ lib_out.pc = "sleep"
    /\ lib_out' = [lib_out EXCEPT !.pc = "loop", !.attempt = @ + 1,
                                  !.events = Append(@, <<"sleep">>)]
    /\ UNCHANGED <<sched_vars, sync_vars, rl_vars, recent_findings, next_finding, enabled,
                   status, shutdown_tx, next_loop, recv_ready, loop_pc, loop_task, loop_search,
                   loop_signal, chan_msg, chan_tx, decisions, start_ret, engine_vars,
                   lib_in>>

\* the loop is over: Err(last_error.unwrap_or(ClaError::Internal(..)))
RetryExhausted ==
    /\ lib_in # << >>
    /\ lib_in.fn = "retry"
    /\ lib_out.pc = "loop"
    /\ lib_out.attempt >= lib_in.config.max_attempts
    /\ lib_out' = [lib_out EXCEPT
                      !.pc = "returned",
                      !.result = IF lib_out.last_error = << >>
                                 THEN <<"Err", "Internal">>
                                 ELSE <<"Err", lib_out.last_error[1]>>]
    /\ UNCHANGED <<sched_vars, sync_vars, rl_vars, recent_findings, next_finding, enabled,
                   status, shutdown_tx, next_loop, recv_ready, loop_pc, loop_task, loop_search,
                   loop_signal, chan_msg, chan_tx, decisions, start_ret, engine_vars,
                   lib_in>>

InitRetry ==
    /\ SchedInit /\ SyncInit /\ RlDefault /\ UnitFields(TRUE)
    /\ lib_in \in {[fn |-> "retry", config |-> config] : config \in RetryConfigs}
    /\ lib_out = RetryFrame

NextRetry ==
    \/ \E outcome \in OpOutcomes : RetryAttempt(outcome)
    \/ RetrySleep
    \/ RetryExhausted

SpecRetry == InitRetry /\ [][NextRetry]_vars

IsCall(event) == event[1] \in {"Ok", "Err"}
IsRetryable(event) == event[1] = "Err" /\ ShouldRetry(event[2])
Calls(events) == {i \in DOMAIN events : IsCall(events[i])}

\* C26: retry calls the operation at most max_attempts times and sleeps only
\* between two attempts; the first Ok, and an error that should not be
\* retried, is returned at once, with no further call and no sleep; after
\* max_attempts retryable failures the last error is returned.
C26_RetryBounded ==
    (lib_in # << >> /\ lib_in.fn = "retry")
    => LET events == lib_out.events
           max_attempts == lib_in.config.max_attempts
       IN  /\ Cardinality(Calls(events)) <= max_attempts
           /\ \A i \in DOMAIN events :
                 /\ events[i] = <<"sleep">>
                    => /\ i > 1 /\ IsRetryable(events[i - 1])
                       /\ IF i < Len(events)
                          THEN IsCall(events[i + 1])
                          ELSE /\ lib_out.pc = "loop"
                               /\ Cardinality(Calls(events)) < max_attempts
                 /\ (IsCall(events[i]) /\ ~IsRetryable(events[i]))
                    => /\ i = Len(events)
                       /\ lib_out.pc = "returned"
                       /\ lib_out.result = events[i]
                 /\ (IsRetryable(events[i]) /\ i < Len(events))
                    => events[i + 1] = <<"sleep">>
           /\ lib_out.pc = "returned"
              => \/ /\ events # << >>
                    /\ ~IsRetryable(events[Len(events)])
                    /\ lib_out.result = events[Len(events)]
                 \/ /\ max_attempts > 0
                    /\ Cardinality(Calls(events)) = max_attempts
                    /\ \A i \in Calls(events) : IsRetryable(events[i])
                    /\ lib_out.result = events[Len(events)]
                 \/ /\ max_attempts = 0
                    /\ events = << >>
                    /\ lib_out.result = <<"Err", "Internal">>

\* the operation of the tests: two timeouts, then Ok(42), called 3 times
C26_Witness ==
    /\ lib_in # << >>
    /\ lib_in.fn = "retry"
    /\ lib_in.config.max_attempts = 5
    /\ lib_out.pc = "returned"
    /\ lib_out.result = <<"Ok", 42>>
    /\ lib_out.events = << <<"Err", "Network::Timeout">>, <<"sleep">>,
                           <<"Err", "Network::Timeout">>, <<"sleep">>, <<"Ok", 42>> >>
    /\ Cardinality(Calls(lib_out.events)) = 3

-----------------------------------------------------------------------------
(* Properties of the queue's order and of the eviction *)

\* the place of the task `id` in q
IndexOf(q, id) == CHOOSE i \in DOMAIN q : q[i].id = id

\* C27: in every reachable state the queue is in order of priority, highest
\* first, and among equal priorities in the order the tasks were added;
\* add_task puts the new task before the first task of strictly lower
\* priority, and no operation changes the order of the tasks that stay.
C27_QueueInPriorityOrder ==
    /\ [](\A i, j \in DOMAIN queue :
             i < j => \/ queue[i].priority > queue[j].priority
                      \/ /\ queue[i].priority = queue[j].priority
                         /\ queue[i].id < queue[j].id)
    /\ [][ /\ \A a, b \in TaskIds(queue) \cap TaskIds(queue') :
                 IndexOf(queue, a) < IndexOf(queue, b)
                    => IndexOf(queue', a) < IndexOf(queue', b)
           /\ next_id' = next_id + 1
              => /\ next_id \in TaskIds(queue')
                 /\ \A i \in DOMAIN queue' :
                       /\ i < IndexOf(queue', next_id)
                          => queue'[i].priority >= TaskById(queue', next_id).priority
                       /\ i > IndexOf(queue', next_id)
                          => queue'[i].priority < TaskById(queue', next_id).priority
           /\ sched_ret'.op \in {"get_next_task", "cancel_task", "clear_completed"}
              => TaskIds(queue') \subseteq TaskIds(queue) ]_vars

\* add_task has put the newest task in front of an older task of lower
\* priority, after a cancel_task and a get_next_task
C27_Witness ==
    /\ sched_ret.op = "add_task"
    /\ Len(queue) = 2
    /\ queue[1].id = next_id - 1
    /\ queue[1].priority > queue[2].priority
    /\ queue[2].status = "Cancelled"
    /\ taken # << >>

\* C28: when add_task has to evict, the evicted task is one of the lowest
\* priority among the queued tasks: none is evicted while a task of strictly
\* lower priority stays queued.
C28_EvictsLowestPriority ==
    [][ (next_id' = next_id + 1 /\ Len(queue) >= max_queue_size) =>
          \A e \in TaskIds(queue) \ TaskIds(queue') :
             \A o \in TaskIds(queue) :
                TaskById(queue, e).priority <= TaskById(queue, o).priority ]_vars

-----------------------------------------------------------------------------
(* The RateLimiter under concurrent acquire() calls *)

InitRace ==
    /\ SchedInit /\ SyncInit /\ UnitNew(TRUE)
    /\ \E m \in 0..MaxRequests, w \in 0..MaxWindow : RlNew(m, w)

NextRace ==
    \/ \E p \in Acquirers :
          ConcAcquireBegin(p) /\ UNCHANGED <<sched_vars, sync_vars, unit_vars>>
    \/ \E p \in Acquirers :
          ConcAcquireCheck(p) /\ UNCHANGED <<sched_vars, sync_vars, unit_vars>>
    \/ \E p \in Acquirers :
          ConcAcquireWake(p) /\ UNCHANGED <<sched_vars, sync_vars, unit_vars>>
    \/ \E p \in Acquirers :
          ConcAcquireRecord(p) /\ UNCHANGED <<sched_vars, sync_vars, unit_vars>>
    \/ Tick /\ UNCHANGED <<sched_vars, sync_vars, unit_vars>>

SpecRace == InitRace /\ [][NextRace]_vars

\* C29: however concurrent acquire() calls interleave, the count recorded in
\* a window never exceeds max_requests.
C29_CountWithinLimit ==
    /\ request_count <= max_requests
    /\ in_window <= max_requests

\* one task calling acquire() again and again, one call at a time
NextRolling ==
    \/ ConcAcquireBegin(1) /\ UNCHANGED <<sched_vars, sync_vars, unit_vars>>
    \/ ConcAcquireCheck(1) /\ UNCHANGED <<sched_vars, sync_vars, unit_vars>>
    \/ ConcAcquireWake(1) /\ UNCHANGED <<sched_vars, sync_vars, unit_vars>>
    \/ ConcAcquireRecord(1) /\ UNCHANGED <<sched_vars, sync_vars, unit_vars>>
    \/ Tick /\ UNCHANGED <<sched_vars, sync_vars, unit_vars>>

SpecRolling == InitRace /\ [][NextRolling]_vars

\* the acquire() calls that recorded in the `window` seconds from t on
AcquiredIn(t) ==
    {i \in DOMAIN acquired_at : t <= acquired_at[i] /\ acquired_at[i] < t + window}

\* C30: in every interval of `window` seconds, wherever it starts, at most
\* max_requests acquire() calls succeed.
C30_RollingWindow ==
    \A t \in 0..MaxTime : Cardinality(AcquiredIn(t)) <= max_requests

-----------------------------------------------------------------------------
(* SignalProcessor::process and process_batch over every kind of finding *)

\* process_batch: filter_map over the findings, in order
RECURSIVE ProcessBatchSignals(_)
ProcessBatchSignals(findings) ==
    IF findings = << >> THEN << >>
    ELSE Process(Head(findings)) \o ProcessBatchSignals(Tail(findings))

ProcessBatchCall ==
    /\ lib_in # << >>
    /\ lib_in.fn = "process_batch"
    /\ lib_out = << >>
    /\ lib_out' = [result |-> "Ok", signals |-> ProcessBatchSignals(lib_in.findings)]
    /\ UNCHANGED <<sched_vars, sync_vars, rl_vars, recent_findings, next_finding, enabled,
                   status, shutdown_tx, next_loop, recv_ready, loop_pc, loop_task, loop_search,
                   loop_signal, chan_msg, chan_tx, decisions, start_ret, engine_vars,
                   lib_in>>

\* findings handed to one process_batch call
MaxBatch == 2

RouteSources == {"GitHub", "ArXiv", "Twitter", "Farcaster", "LensProtocol", "CustomFeed"}
RouteScores == {30, 60, 70, 75, 80, NaN}
\* stars around the popularity threshold, and 2^32
RouteStars == {<< >>, <<99>>, <<100>>, <<0, 1>>}
\* engagement around 1000, and 2^32 + 5
RouteEngagement == {<< >>, <<1000>>, <<1001>>, <<5, 1>>}

RouteFindings ==
    {[Finding(source, title, <<"Test", "summary">>, score, stars)
         EXCEPT !.engagement = engagement] :
        source \in RouteSources, title \in {<<"AI", "Framework">>, <<"CVE", "fix">>},
        score \in RouteScores, stars \in RouteStars, engagement \in RouteEngagement}

\* the findings of the tests and their neighbours, for the batches
BatchFindings ==
    {f \in RouteFindings :
        /\ f.stars = << >> /\ f.engagement = << >>
        /\ f.title = <<"AI", "Framework">>
        /\ f.source \in {"GitHub", "ArXiv", "Twitter"}
        /\ f.relevance_score \in {30, 75, 80}}

RouteCalls ==
    {[fn |-> "process_batch", findings |-> <<f>>] : f \in RouteFindings}
    \union {[fn |-> "process_batch", findings |-> findings] :
               findings \in UNION {[1..n -> BatchFindings] : n \in 0..MaxBatch}}

InitRoute ==
    /\ SchedInit /\ SyncInit /\ RlDefault /\ UnitFields(TRUE)
    /\ lib_in \in RouteCalls
    /\ lib_out = << >>

NextRoute == ProcessBatchCall

SpecRoute == InitRoute /\ [][NextRoute]_vars

\* the u64 `value` is at least n (n below 2^32)
U64AtLeast(value, n) ==
    /\ value # << >>
    /\ \/ value[1] >= n
       \/ Len(value) = 2 /\ value[2] > 0

\* the routing table: the type of the signal a finding is to give, or "none"
Routed(finding) ==
    IF Lt(finding.relevance_score, relevance_threshold) THEN "none"
    ELSE CASE finding.source = "GitHub" ->
                 IF \E kw \in security_keywords :
                       Contains(finding.title, kw) \/ Contains(finding.summary, kw)
                 THEN "SecurityVulnerability"
                 ELSE IF U64AtLeast(finding.stars, popularity_threshold)
                         \/ Ge(finding.relevance_score, 80)
                      THEN "NewTechnologyDetected"
                      ELSE "none"
           [] finding.source = "ArXiv" -> "ResearchPublished"
           [] finding.source \in {"Twitter", "Farcaster", "LensProtocol"} ->
                 IF U64AtLeast(finding.engagement, 1001) \/ Ge(finding.relevance_score, 75)
                 THEN "SocialTrend"
                 ELSE "none"
           [] OTHER -> IF Ge(finding.relevance_score, 70)
                       THEN "NewTechnologyDetected"
                       ELSE "none"

\* C31: process_batch returns, in input order, one signal for every finding
\* that the routing table gives a signal, of the type the table names, and
\* nothing for the others.
C31_RoutingTable ==
    (/\ lib_in # << >>
     /\ lib_in.fn = "process_batch"
     /\ lib_out # << >>)
    => LET routed == SelectSeq([i \in DOMAIN lib_in.findings |->
                                   Routed(lib_in.findings[i])],
                               LAMBDA type : type # "none")
       IN  [i \in DOMAIN lib_out.signals |-> lib_out.signals[i].type] = routed

-----------------------------------------------------------------------------
(* The autonomy level and the DecisionEngine *)

\* C32: under AutonomyLevel::Supervised every Decision the DecisionEngine
\* produces requires approval.
C32_SupervisedRequiresApproval ==
    (status.autonomy_level = "Supervised" /\ engine_out # << >>)
    => engine_out[1].requires_approval

-----------------------------------------------------------------------------
(* Starvation of Background tasks *)

-----------------------------------------------------------------------------
(* The status counters of the control loop *)

\* C34: status.tasks_completed goes up by one in each tick in which
\* execute_task returned a signal (the step that makes the Decision) and in no
\* other step, so it never exceeds the number of tasks dequeued; a dequeued
\* task whose execution gives no signal is not counted and not put back in the
\* queue, and every execution is that of a task just dequeued, so no task is
\* executed again.
C34_CompletedCountsSignals ==
    /\ [](/\ status.tasks_completed <= Len(taken)
          /\ \A i \in DOMAIN taken : taken[i].id \notin TaskIds(queue))
    /\ [][ /\ status'.tasks_completed =
                 status.tasks_completed +
                    (IF \E l \in Loops : loop_pc[l] = "decide" /\ loop_pc'[l] # "decide"
                     THEN 1 ELSE 0)
           /\ \A l \in Loops :
                 /\ (loop_pc[l] = "execute" /\ loop_pc'[l] # "execute")
                    => /\ loop_pc'[l] = (IF loop_signal'[l] # << >>
                                         THEN "decide" ELSE "refresh")
                       /\ queue' = queue
                       /\ loop_task'[l] = << >>
                 /\ (loop_pc[l] # "execute" /\ loop_pc'[l] = "execute")
                    => /\ taken' = Append(taken, loop_task'[l][1])
                       /\ loop_task'[l][1].id \notin TaskIds(taken) ]_vars

\* two tasks were dequeued: the first gave a signal and was counted, the
\* execution of the second has just ended in a search error
C34_Witness ==
    /\ Len(taken) = 2
    /\ status.tasks_completed = 1
    /\ \E l \in Loops :
          /\ loop_pc[l] = "refresh"
          /\ loop_search[l].outcome = "search_error"
          /\ loop_task[l] = << >>
    /\ queue # << >>

-----------------------------------------------------------------------------
(* The statuses of the queued tasks and get_queue_status *)

\* the queue's operations with get_queue_status, one caller of get_next_task
InitQueue == SchedInit /\ SyncInit /\ RlDefault /\ UnitNew(TRUE)

NextQueue ==
    \/ \E p \in TaskPriority : AddTask(p) /\ UNCHANGED <<sync_vars, rl_vars, unit_vars>>
    \/ GetNextTask(1) /\ UNCHANGED <<sync_vars, rl_vars, unit_vars>>
    \/ ClearCompleted /\ UNCHANGED <<sync_vars, rl_vars, unit_vars>>
    \/ \E id \in 1..MaxTasks : CancelTask(id) /\ UNCHANGED <<sync_vars, rl_vars, unit_vars>>
    \/ GetQueueStatus /\ UNCHANGED <<sync_vars, rl_vars, unit_vars>>

SpecQueue == InitQueue /\ [][NextQueue]_vars

\* C35: every queued task is Pending or Cancelled in every reachable state
\* (the tasks being made by ResearchTask::new), so get_queue_status always
\* reports running = 0 and pending + cancelled = total, and clear_completed
\* never removes a task.
C35_QueuedPendingOrCancelled ==
    /\ [](/\ \A i \in DOMAIN queue : queue[i].status \in {"Pending", "Cancelled"}
          /\ sched_ret.op = "get_queue_status"
             => LET IsCancelled(t) == t.status = "Cancelled"
                    qs == sched_ret.queue_status[1]
                IN  /\ qs.running = 0
                    /\ qs.total = Len(queue)
                    /\ qs.pending + CountTasks(queue, IsCancelled) = qs.total)
    /\ [][ sched_ret'.op = "clear_completed" => queue' = queue ]_vars

\* get_queue_status reports two queued tasks, one of them Pending and the
\* other cancelled, after a task has been handed out
C35_Witness ==
    /\ sched_ret.op = "get_queue_status"
    /\ sched_ret.queue_status[1].total = 2
    /\ sched_ret.queue_status[1].pending = 1
    /\ \E i \in DOMAIN queue : queue[i].status = "Cancelled"
    /\ taken # << >>

-----------------------------------------------------------------------------
(* sync_now beside a concurrent connect *)

InitSyncRace == SchedInit /\ SyncNew(SyncTasks) /\ RlDefault /\ UnitNew(TRUE)

\* findings are queued, the callers call sync_now and another task connect()
NextSyncRace ==
    \/ QueueFinding("json") /\ UNCHANGED <<sched_vars, rl_vars, unit_vars>>
    \/ \E p \in Callers :
          SyncNowBegin(p, "sync_now") /\ UNCHANGED <<sched_vars, rl_vars, unit_vars>>
    \/ ConnectBegin(Connector) /\ UNCHANGED <<sched_vars, rl_vars, unit_vars>>
    \/ \E p \in SyncTasks : ConnectSyncing(p) /\ UNCHANGED <<sched_vars, rl_vars, unit_vars>>
    \/ \E p \in SyncTasks, connected \in BOOLEAN :
          ConnectProbe(p, connected) /\ UNCHANGED <<sched_vars, rl_vars, unit_vars>>
    \/ \E p \in Callers : Drain(p) /\ UNCHANGED <<sched_vars, rl_vars, unit_vars>>
    \/ \E p \in Callers : Stamp(p) /\ UNCHANGED <<sched_vars, rl_vars, unit_vars>>

SpecSyncRace == InitSyncRace /\ [][NextSyncRace]_vars

\* C36: sync_now removes items from the offline queue only after connectivity
\* has been established: whatever the interleaving of sync_now and connect
\* calls, the step that drains items is taken with the status Connected, never
\* Syncing or Disconnected, and a call whose connect probe fails removes
\* nothing.
C36_DrainsOnlyWhenConnected ==
    [][ \A p \in SyncTasks :
          /\ (spc[p] = "drain" /\ spc'[p] # "drain" /\ offline_queue' # offline_queue)
             => sync_status = "Connected"
          /\ (spc[p] = "probe" /\ sync_ret'[p].result = "Err")
             => offline_queue' = offline_queue ]_vars

-----------------------------------------------------------------------------
(* The control loops of one CommanderUnit *)

\* the loops that are inside a tick
InTick == {l \in Loops : loop_pc[l] \in {"execute", "decide", "refresh"}}

\* C37: at most one control loop is active per CommanderUnit: whatever the
\* start / stop calls, two loops are never inside a tick at the same time, so
\* at most one dequeued task is being executed.
C37_OneLoopTicks ==
    /\ Cardinality(InTick) <= 1
    /\ Cardinality({l \in Loops : loop_pc[l] = "execute"}) <= 1

-----------------------------------------------------------------------------
(* stop() and the end of the control loop *)

\* start, stop and the control loops of a unit whose config is enabled
InitStop == SchedInit /\ SyncInit /\ RlDefault /\ UnitNew(TRUE)

NextStop ==
    \/ Start /\ UNCHANGED <<sched_vars, sync_vars, rl_vars>>
    \/ Stop /\ UNCHANGED <<sched_vars, sync_vars, rl_vars>>
    \/ AddResearchTask(Normal) /\ UNCHANGED <<sync_vars, rl_vars>>
    \/ \E l \in Loops : LoopStep(l, UnitOutcomes, LifeResponses)

\* the runtime keeps polling a spawned control loop, and its ticks end
SpecStop ==
    /\ InitStop /\ [][NextStop]_vars
    /\ \A l \in Loops : WF_vars(LoopStep(l, UnitOutcomes, LifeResponses))

\* C38: after stop() has returned is_running is false, and it stays false
\* until the next start; the loop stop() signalled eventually terminates; once
\* the signal is sent the loop begins at most one further tick: when it comes
\* back to its select! with the signal pending it only exits, dequeuing no
\* task.
C38_StopEndsLoop ==
    /\ [][ /\ (shutdown_tx # 0 /\ shutdown_tx' = 0)
              => /\ ~status'.is_running
                 /\ loop_pc[shutdown_tx] # "exited" => chan_msg'[shutdown_tx] > 0
           /\ (~status.is_running /\ status'.is_running)
              => start_ret'.calls = start_ret.calls + 1
           /\ \A l \in Loops :
                 /\ (chan_msg[l] > 0 /\ loop_pc[l] = "refresh" /\ loop_pc'[l] = "sleep")
                    => recv_ready'[l]
                 /\ (recv_ready[l] /\ loop_pc'[l] # loop_pc[l])
                    => /\ loop_pc'[l] = "exited"
                       /\ taken' = taken
                       /\ queue' = queue ]_vars
    /\ \A l \in Loops : (chan_msg[l] > 0) ~> (loop_pc[l] = "exited")

\* stop() has returned while a task was in hand; the loop has finished that
\* tick and is back at its select!, the shutdown message waiting, with a
\* Pending task still queued
C38_Witness ==
    /\ ~status.is_running
    /\ shutdown_tx = 0
    /\ \E l \in Loops :
          /\ loop_pc[l] = "sleep"
          /\ recv_ready[l]
          /\ chan_msg[l] > 0
    /\ taken # << >>
    /\ \E i \in DOMAIN queue : IsPending(queue[i])

-----------------------------------------------------------------------------
(* The control loop serves the queue *)

\* start() is called once and never stop(); tasks are added and cancelled
\* while the loop runs its ticks
InitServe == SchedInit /\ SyncInit /\ RlDefault /\ UnitNew(TRUE)

\* a step of the control loop l, which is never told to shut down
ServeStep(l) ==
    \/ TickBegin(l) /\ UNCHANGED <<sync_vars, rl_vars>>
    \/ \E outcome \in UnitOutcomes, raw \in LifeResponses :
          Execute(l, outcome, raw) /\ UNCHANGED <<sched_vars, sync_vars, rl_vars>>
    \/ Decide(l) /\ UNCHANGED <<sched_vars, sync_vars, rl_vars>>
    \/ RefreshSync(l) /\ UNCHANGED <<sched_vars, sync_vars, rl_vars>>

NextServe ==
    \/ next_loop = 1 /\ Start /\ UNCHANGED <<sched_vars, sync_vars, rl_vars>>
    \/ \E p \in {Normal, High} : AddResearchTask(p) /\ UNCHANGED <<sync_vars, rl_vars>>
    \/ \E id \in 1..MaxTasks : CancelTask(id) /\ UNCHANGED <<sync_vars, rl_vars, unit_vars>>
    \/ \E l \in Loops : ServeStep(l)

\* the runtime keeps polling the control loop, and its ticks end
SpecServe ==
    /\ InitServe /\ [][NextServe]_vars
    /\ \A l \in Loops : WF_vars(ServeStep(l))

PendingIds(q) == {q[i].id : i \in PendingIdx(q)}
\* the task `id` was dequeued and its execution has ended
Executed(id) ==
    /\ id \in TaskIds(taken)
    /\ \A l \in Loops : loop_task[l] = << >> \/ loop_task[l][1].id # id

\* C39: while the control loop runs and is never stopped, the tasks added
\* being finitely many, every Pending task is eventually dequeued and
\* executed unless it is cancelled or evicted; the loop dequeues one task per
\* tick, and a Pending task leaves the queue only by being dequeued or
\* evicted by add_task.
C39_PendingEventuallyExecuted ==
    /\ \A id \in 1..MaxTasks :
          (loop_pc[1] # "none" /\ id \in PendingIds(queue))
          ~> \/ Executed(id)
             \/ id \in TaskIds(queue) \ PendingIds(queue)
             \/ id \notin TaskIds(queue) \cup TaskIds(taken)
    /\ [][ /\ taken' # taken
              => \E l \in Loops :
                    /\ loop_pc[l] = "sleep" /\ loop_pc'[l] = "execute"
                    /\ Len(taken') = Len(taken) + 1
                    /\ taken'[Len(taken')].id \in PendingIds(queue)
           /\ \A id \in PendingIds(queue) \ TaskIds(queue') :
                 \/ id \in TaskIds(taken')
                 \/ next_id' = next_id + 1 /\ Len(queue) >= max_queue_size ]_vars

\* two tasks have been dequeued, the High one ahead of the Normal one added
\* before it, and both executed
C39_Witness ==
    /\ loop_pc[1] = "sleep"
    /\ Len(taken) = 2
    /\ taken[1].id = 2
    /\ taken[2].id = 1
    /\ Executed(1)
    /\ Executed(2)

-----------------------------------------------------------------------------
(* status.tasks_pending *)

\* C40: status.tasks_pending counts the add_research_task calls: each call adds
\* one to it and no dequeue, execution, cancellation or eviction takes one
\* off, so it never decreases and equals the number of tasks ever added
\* through the unit, not the number of Pending tasks in the queue.
C40_TasksPendingCountsAdds ==
    /\ [](status.tasks_pending = next_id - 1)
    /\ [][ status'.tasks_pending =
              status.tasks_pending + (IF sched_ret'.op = "add_task" /\ next_id' # next_id
                                      THEN 1 ELSE 0) ]_vars

\* three tasks were added: one was evicted by the last add_research_task, one
\* dequeued and executed, one cancelled; tasks_pending is 3 and no task is
\* Pending
C40_Witness ==
    /\ status.tasks_pending = 3
    /\ PendingIds(queue) = {}
    /\ Len(queue) = 1
    /\ queue[1].status = "Cancelled"
    /\ Len(taken) = 1
    /\ Executed(taken[1].id)
    /\ status.tasks_completed = 1

====
